---------------------------- MODULE Spec2Model ----------------------------
(***************************************************************************)
(* Verification model of the GeoRide Trips integration                     *)
(* (custom_components/georide_trips).                                      *)
(*                                                                         *)
(* The integration is modelled component by component.  Each component     *)
(* has its own specification over the shared variable tuple:               *)
(*                                                                         *)
(*   SpecOdo   polling coordinators for the recent and the lifetime trip   *)
(*             windows, the Telemetry API request they issue, and the      *)
(*             odometer sensor computed from the two windows               *)
(*             (sensor.py, api.py);                                        *)
(*   SpecFill  the "confirmer plein" button, the one-shot lock-transition  *)
(*             registry of the recent-trips coordinator and the status     *)
(*             coordinator that feeds it (button.py, sensor.py);           *)
(*   SpecSock  the reconnect loop of the Socket.IO manager                 *)
(*             (socket_manager.py);                                        *)
(*   SpecHist  the fill-up workflow with the fill-ups made one at a time;  *)
(*   SpecDisp  the dispatch of live messages to the entities' callbacks    *)
(*             (socket_manager.py);                                        *)
(*   SpecApi   the calls of the Telemetry API client, request by request   *)
(*             (api.py);                                                   *)
(*   SpecSnap  the midnight snapshots of the odometer (sensor.py);         *)
(*   SpecAbs   the odometer set to an absolute value (sensor.py);          *)
(*   SpecBin   the binary sensors fed by the live stream, with the status  *)
(*             coordinator as fallback (binary_sensor.py);                 *)
(*   SpecHealth the last_update_success flag of the three polling          *)
(*             coordinators (sensor.py, api.py);                           *)
(*   SpecStop  the subscribers of the lock transition, the sensor          *)
(*             platform's among them (sensor.py);                          *)
(*   SpecLoops the Socket.IO manager with start() called while a loop      *)
(*             runs (socket_manager.py).                                   *)
(*                                                                         *)
(* The operations of a component are driven by their callers (Home         *)
(* Assistant services, timers, the upstream servers), which the model      *)
(* chooses nondeterministically.  What Home Assistant itself answers       *)
(* (entity registry look-ups, entity states) is an input of the model.     *)
(*                                                                         *)
(* Units: trip distances are metres as delivered by the API; kilometre     *)
(* values that the code rounds to two decimals are integers counting       *)
(* hundredths of a kilometre (ckm), so 514.3 km is 51430.                   *)
(***************************************************************************)
EXTENDS Integers, Sequences, FiniteSets, TLC

VARIABLES
    \* ---- polling coordinators and odometer (sensor.py) ----
    lifetimeData,       \* GeoRideLifetimeTripsCoordinator.data
    recentData,         \* GeoRideTripsCoordinator.data
    offsetM,            \* state of number.<moto>_odometer_offset, in metres
    lastCall,           \* the last get_trips call: its coordinator, and
                        \* whether its request failed (what the client logs)
    \* ---- Socket.IO manager (socket_manager.py) ----
    should_run,         \* GeoRideSocketManager._should_run
    connected,          \* GeoRideSocketManager._connected
    reconnect_delay,    \* GeoRideSocketManager._reconnect_delay (seconds)
    sockToken,          \* whether api.token is set when _connect needs it
    loopPc,             \* position of the _run_loop task
    was_connected,      \* local of _run_loop
    emitted,            \* subscribe messages sent on the current connection
    lastWait,           \* argument of the last asyncio.sleep of _run_loop
    reconnects,         \* backoff waits completed since the last successful
                        \* connection (or since construction)
    \* ---- fill-up workflow (button.py, sensor.py) ----
    markerEntity,       \* whether the host's entity registry resolves
                        \* datetime <tracker>_plein_pending_at to an entity
    plein_pending_at,   \* state of that entity: 0 is the 1970 sentinel
                        \* (no fill-up pending), n > 0 the time of press n
    fuel,               \* states of the fuel-history number entities (ckm;
                        \* nb_pleins_enregistres is a count)
    stop_confirmed_callbacks,
                        \* GeoRideTripsCoordinator._stop_confirmed_callbacks:
                        \* the registered one-shot callbacks of the button,
                        \* each tagged with the press that registered it
    unregister_stop_cb, \* GeoRideConfirmerPleinButton._unregister_stop_cb
                        \* is not None
    attached,           \* GeoRideTripsCoordinator._status_coordinator is set
    last_locked_state,  \* GeoRideTripsCoordinator._last_locked_state
    presses,            \* async_press coroutines suspended at an await
    computes,           \* _compute_and_record_plein tasks not yet finished
    pressCount,         \* presses so far; press n happens at time n
    lastExit,           \* what the step just taken was, if it was the exit
                        \* of a _compute_and_record_plein task
    added,              \* the button entity was added to Home Assistant
    history,            \* the inter-fill-up distances recorded so far, in
                        \* the order of their recording
    lastObs,            \* what the step just taken was, if the lock detector
                        \* looked at the data of the status coordinator
    \* ---- dispatch of live messages (socket_manager.py) ----
    _callbacks,         \* GeoRideSocketManager._callbacks: for each tracker
                        \* id and event name, the list of callbacks
    tokens,             \* the unregister functions register_callback has
                        \* returned: what each removes, and whether it was
                        \* ever called
    tasks,              \* the messages received whose dispatch has not
                        \* finished, oldest first
    lastDisp,           \* what the step just taken was, if it ran _dispatch
    \* ---- Telemetry API client, request by request (api.py) ----
    apiCall,            \* the call of a GeoRideTripsAPI method in progress
                        \* or just returned: the method, the await it is
                        \* at, its _retry argument, what the server has
                        \* answered so far and what it returned
    \* ---- midnight snapshots (sensor.py) ----
    snapshots,          \* states of number.<moto>_km_debut_journee,
                        \* _semaine and _mois (ckm)
    jour_stats_mensuelles,
                        \* state of number.<moto>_jour_stats_mensuelles
    snapTasks,          \* the number.set_value calls _set_number has
                        \* created as tasks and that have not run yet
    lastMidnight,       \* the last firing of _midnight_callback: its date,
                        \* the odometer it read, the snapshots written since
    \* ---- odometer set to an absolute value (sensor.py) ----
    offsetTasks,        \* the number.set_value calls set_odometer has
                        \* created as tasks and that have not run yet
    lastSet,            \* the last set_odometer call: its target, the
                        \* windows and the offset it found, and whether its
                        \* service call has run
    \* ---- start() called again (socket_manager.py) ----
    orphans,            \* the _run_loop tasks that _reconnect_task no longer
                        \* refers to and that have not ended: the await
                        \* each was suspended at when start() replaced it
    \* ---- subscribers of the lock transition (sensor.py) ----
    stopSubs,           \* GeoRideTripsCoordinator._stop_confirmed_callbacks
                        \* with the callback of the sensor platform in it
    stopEdges,          \* lock transitions detected so far
    onStopCalls,        \* calls of _on_stop so far
    refreshRequested,   \* a refresh of the lifetime coordinator was
                        \* requested and has not run yet
    lastEdge,           \* what the step just taken was, if it was
                        \* _on_lock_confirmed: the callbacks it called
    \* ---- health of the polling coordinators (sensor.py) ----
    last_update_success,
                        \* DataUpdateCoordinator.last_update_success of the
                        \* recent, the lifetime and the status coordinator
    statusData,         \* GeoRideTrackerStatusCoordinator.data
    \* ---- binary sensors fed by the live stream (binary_sensor.py) ----
    is_on,              \* _attr_is_on of the moving, stolen and crashed
                        \* sensors
    lastBin             \* what the step just taken was, if a handler of the
                        \* moving sensor ran: its input and the state before

odoVars == <<lifetimeData, recentData, offsetM, lastCall>>
sockVars == <<should_run, connected, reconnect_delay, sockToken, loopPc,
              was_connected, emitted, lastWait, reconnects>>
fillVars == <<markerEntity, plein_pending_at, fuel, stop_confirmed_callbacks,
              unregister_stop_cb, attached, last_locked_state, presses,
              computes, pressCount, lastExit, added, history, lastObs>>
dispVars == <<_callbacks, tokens, tasks, lastDisp>>
apiVars == <<apiCall>>
snapVars == <<snapshots, jour_stats_mensuelles, snapTasks, lastMidnight>>
absVars == <<offsetTasks, lastSet>>
loopVars == <<orphans>>
stopVars == <<stopSubs, stopEdges, onStopCalls, refreshRequested, lastEdge>>
healthVars == <<last_update_success, statusData>>
binVars == <<is_on, lastBin>>
vars == <<odoVars, sockVars, fillVars, dispVars, apiVars, snapVars, absVars,
          loopVars, stopVars, healthVars, binVars>>

(***************************************************************************)
(* Bounds of the model.                                                    *)
(***************************************************************************)
\* Trip start and end times range over 1..MaxTime.
MaxTime == 2
\* A trip window delivered by the API holds at most MaxWin trips.
MaxWin == 2

\* The reconnect loop is followed for at most MaxReconnects consecutive
\* failed cycles.
MaxReconnects == 8
\* Number of trackers of the account.
NTrackers == 2
\* The "confirmer plein" button is pressed at most MaxPress times.
MaxPress == 2
\* When fill-ups are followed one at a time, at most MaxCycles of them.
MaxCycles == 5
\* At most MaxSubs callbacks are ever registered with the socket manager.
MaxSubs == 2
\* At most MaxMsgs received messages are being dispatched at a time.
MaxMsgs == 2

\* A call of the API client is followed for at most MaxRequests requests.
MaxRequests == 4
\* At most MaxEdges lock transitions are followed.
MaxEdges == 3
\* start() is called at most MaxLoops times while a loop runs.
MaxLoops == 1

\* Distances (metres) a trip may have.
Dists == {12300, 1234}
\* Values (metres) the user may give the odometer offset.
Offsets == {0, 2000}

(***************************************************************************)
(* Arithmetic helpers.                                                     *)
(***************************************************************************)
Min(a, b) == IF a <= b THEN a ELSE b
Max(a, b) == IF a >= b THEN a ELSE b

RECURSIVE SumDistance(_)
\* sum(t.get("distance", 0) for t in trips)
SumDistance(trips) ==
    IF trips = {} THEN 0
    ELSE LET t == CHOOSE y \in trips : TRUE
         IN  t.distance + SumDistance(trips \ {t})

RECURSIVE Pow2(_)
Pow2(n) == IF n = 0 THEN 1 ELSE 2 * Pow2(n - 1)

\* Python round(): n/d rounded to the nearest integer, ties to even.
PyRound(n, d) ==
    LET q == n \div d
        r == n % d
    IN  IF 2 * r < d THEN q
        ELSE IF 2 * r > d THEN q + 1
        ELSE IF q % 2 = 0 THEN q ELSE q + 1

(***************************************************************************)
(* Trips and trip windows.                                                 *)
(* A trip is a record of its startTime, endTime and distance.  The API     *)
(* delivers trips with startTime <= endTime.  A window is the set of the   *)
(* trips of one fetch; the order in which the coordinators sort them       *)
(* plays no role in the sums and the maximum taken by the odometer.        *)
(***************************************************************************)
Trip == {t \in [startTime : 1..MaxTime, endTime : 1..MaxTime, distance : Dists] :
            t.startTime <= t.endTime}

Windows == {w \in SUBSET Trip : Cardinality(w) <= MaxWin}

\* coordinator.data before the first refresh
NoData == [none |-> TRUE, trips |-> {}]
Data(w) == [none |-> FALSE, trips |-> w]

(***************************************************************************)
(* Telemetry API: GeoRideTripsAPI.get_trips.                               *)
(* A server script is the sequence of answers the server gives to the      *)
(* requests of one call: the answer to the GET, and after a 401 the        *)
(* outcome of the re-login and the answer to the repeated GET.             *)
(***************************************************************************)
Answers == {"200", "401", "500", "exception"}

ServerScripts ==
    {<<a>> : a \in Answers \ {"401"}}
    \cup {<<"401", "login_failed">>}
    \cup {<<"401", "login_ok", a>> : a \in Answers}

\* The request of the call was answered with the trips (a 200 response to
\* the GET or to the GET repeated after a successful re-login).
ScriptSucceeds(s) ==
    \/ s[1] = "200"
    \/ Len(s) = 3 /\ s[2] = "login_ok" /\ s[3] = "200"

\* get_trips(tracker_id, from, to): the list returned to the caller when
\* the server follows script s and holds the trips `trips' for the range.
get_trips(s, trips) ==
    IF s[1] = "200" THEN trips
    ELSE IF s[1] = "401"
         THEN IF s[2] = "login_failed" THEN {}
              ELSE IF s[3] = "200" THEN trips
                   ELSE {}      \* _retry=False: no further retry
         ELSE {}                \* other status, or exception caught

(***************************************************************************)
(* Odometer sensor: GeoRideRealOdometerSensor.                             *)
(***************************************************************************)
\* t.get("endTime") or t.get("startTime", "")
TripEnd(t) == t.endTime

\* Variant of last_lifetime_date that takes the earliest trip end.
last_lifetime_date_min(lifetime_trips) ==
    IF lifetime_trips = {} THEN 0
    ELSE CHOOSE m \in {TripEnd(t) : t \in lifetime_trips} :
            \A t \in lifetime_trips : m <= TripEnd(t)

\* max(t.endTime for t in lifetime_trips); 0 stands for the empty string
\* that the code uses when the lifetime window has no trip.
last_lifetime_date(lifetime_trips) ==
    IF lifetime_trips = {} THEN 0
    ELSE CHOOSE m \in {TripEnd(t) : t \in lifetime_trips} :
            \A t \in lifetime_trips : TripEnd(t) <= m

\* Variant of new_trips that also keeps a trip starting at the partition.
new_trips_inclusive(lifetime_trips, recent_trips) ==
    IF last_lifetime_date(lifetime_trips) # 0
    THEN {t \in recent_trips : t.startTime >= last_lifetime_date(lifetime_trips)}
    ELSE recent_trips

\* The recent trips counted in the delta.
new_trips(lifetime_trips, recent_trips) ==
    IF last_lifetime_date(lifetime_trips) # 0
    THEN {t \in recent_trips : t.startTime > last_lifetime_date(lifetime_trips)}
    ELSE recent_trips

\* _compute_tracker_km: base and delta, here in metres.
base_m(ld) == SumDistance(ld.trips)
delta_m(ld, rd) == SumDistance(new_trips(ld.trips, rd.trips))

\* native_value: round(base_km + delta_km + offset_km, 2), in ckm.
native_value(ld, rd, off) == PyRound(base_m(ld) + delta_m(ld, rd) + off, 10)

odometer_value == native_value(lifetimeData, recentData, offsetM)

(***************************************************************************)
(* Polling coordinators.                                                   *)
(* _async_update_data returns what get_trips returned; the API client      *)
(* catches every failure itself and returns an empty list, so the          *)
(* coordinator stores that list as its new data.                           *)
(***************************************************************************)
NoCall == [coord |-> "none", failed |-> FALSE]

\* _async_update_data of the three coordinators raises UpdateFailed when
\* something inside its try block raises. get_trips and get_trackers catch
\* every failure of the request and return [], and nothing else in the
\* block raises, so no answer of the server makes it raise.
_async_update_data_raises(answers) == FALSE

\* DataUpdateCoordinator: last_update_success after a refresh.
update_success(answers) == ~_async_update_data_raises(answers)

RecentRefresh(s, trips) ==
    /\ recentData' = Data(get_trips(s, trips))
    /\ last_update_success' =
           [last_update_success EXCEPT !["recent"] = update_success(s)]
    /\ lastCall' = [coord |-> "recent", failed |-> ~ScriptSucceeds(s)]
    /\ UNCHANGED <<lifetimeData, offsetM, statusData, sockVars, fillVars, dispVars, apiVars, snapVars, absVars,
                 loopVars, stopVars, binVars>>

LifetimeRefresh(s, trips) ==
    /\ lifetimeData' = Data(get_trips(s, trips))
    /\ last_update_success' =
           [last_update_success EXCEPT !["lifetime"] = update_success(s)]
    /\ lastCall' = [coord |-> "lifetime", failed |-> ~ScriptSucceeds(s)]
    /\ UNCHANGED <<recentData, offsetM, statusData, sockVars, fillVars, dispVars, apiVars, snapVars, absVars,
                 loopVars, stopVars, binVars>>

\* The user changes number.<moto>_odometer_offset.
SetOffset(o) ==
    /\ offsetM' = o
    /\ UNCHANGED <<lifetimeData, recentData, lastCall, sockVars, fillVars, dispVars, apiVars, snapVars, absVars,
                 loopVars, stopVars, healthVars, binVars>>

RecentRefreshOk == \E s \in ServerScripts, w \in Windows :
                      ScriptSucceeds(s) /\ RecentRefresh(s, w)
RecentRefreshFailed == \E s \in ServerScripts :
                      ~ScriptSucceeds(s) /\ RecentRefresh(s, {})
LifetimeRefreshOk == \E s \in ServerScripts, w \in Windows :
                      ScriptSucceeds(s) /\ LifetimeRefresh(s, w)
LifetimeRefreshFailed == \E s \in ServerScripts :
                      ~ScriptSucceeds(s) /\ LifetimeRefresh(s, {})
OffsetChange == \E o \in Offsets : SetOffset(o)

\* State of the coordinators and of the offset after construction.
OdoConstructed ==
    /\ lifetimeData = NoData
    /\ recentData = NoData
    /\ offsetM = 0
    /\ lastCall = NoCall

\* GeoRideSocketManager.__init__
SockConstructed ==
    /\ should_run = FALSE
    /\ connected = FALSE
    /\ reconnect_delay = 5
    /\ loopPc = "none"
    /\ was_connected = FALSE
    /\ emitted = 0
    /\ lastWait = 0
    /\ reconnects = 0

\* The fuel-history numbers at their defaults (number.py).
NoFuel == [km_dernier_plein |-> 0, km_plein_hist_1 |-> 0, km_plein_hist_2 |-> 0,
           km_plein_hist_3 |-> 0, autonomie_moyenne_calculee |-> 0,
           nb_pleins_enregistres |-> 0]

NoExit == [kind |-> "none", press |-> 0, api_failed |-> FALSE,
           obtained |-> FALSE, odometer_au_plein |-> 0, km_dernier_plein |-> 0,
           odometer_actuel |-> 0, api_m |-> 0]

NoObs == [kind |-> "none", prev |-> "None", bit |-> "none", subs |-> <<>>,
          fired |-> <<>>]

\* GeoRideTripsCoordinator.__init__ and GeoRideConfirmerPleinButton.__init__,
\* with no fill-up recorded yet.
FillConstructed ==
    /\ fuel = NoFuel
    /\ added = FALSE
    /\ history = <<>>
    /\ lastObs = NoObs
    /\ stop_confirmed_callbacks = <<>>
    /\ unregister_stop_cb = FALSE
    /\ attached = FALSE
    /\ last_locked_state = "None"
    /\ presses = {}
    /\ computes = {}
    /\ pressCount = 0
    /\ lastExit = NoExit

\* Tracker ids under which entities register, and the trackerId numbers the
\* server sends for them.
PayloadIds == {1, 2}
Devices == {ToString(n) : n \in PayloadIds}

\* Event names of the stream that are followed here: "position" has no bus
\* event, "alarm" has one.
Kinds == {"position", "alarm"}

\* Payloads of a message, as far as their "trackerId" key goes: absent,
\* JSON null, or a number.
NoTrackerId == [has |-> FALSE, type |-> "none", val |-> 0]
NullTrackerId == [has |-> TRUE, type |-> "null", val |-> 0]
NoDisp == [kind |-> "none", index |-> 0, event_name |-> "none",
           data |-> NoTrackerId, list |-> <<>>, live |-> <<>>, from |-> 1,
           next |-> 1, raised |-> {}, surfaced |-> FALSE, bus |-> "none"]

\* GeoRideSocketManager.__init__: no callback registered, nothing received.
DispConstructed ==
    /\ _callbacks = [key \in Devices \X Kinds |-> <<>>]
    /\ tokens = <<>>
    /\ tasks = <<>>
    /\ lastDisp = NoDisp

\* Methods of GeoRideTripsAPI that send one request of their own.
Ops == {"get_trackers", "get_trips", "get_trip_positions_by_date",
        "get_trip_positions", "set_eco_mode"}

\* GeoRideTripsAPI after async_setup_entry: logged in, no call made.
NoApiCall == [op |-> "none", pc |-> "returned", _retry |-> TRUE,
              answers |-> <<>>, logins |-> <<>>, result |-> "none"]

ApiConstructed == apiCall = NoApiCall

\* The snapshot numbers at their defaults (number.py).
NoSnapshots == [km_debut_journee |-> 0, km_debut_semaine |-> 0,
                km_debut_mois |-> 0]

NoMidnight == [fired |-> FALSE, weekday |-> 0, day |-> 0, jour_mensuel |-> 0,
               no_data |-> FALSE, odometer_km |-> 0, written |-> {}]

\* GeoRideMidnightSnapshotManager.setup, the numbers at their defaults.
SnapConstructed ==
    /\ snapshots = NoSnapshots
    /\ jour_stats_mensuelles = [state |-> "ok", value |-> 1]
    /\ snapTasks = <<>>
    /\ lastMidnight = NoMidnight

NoSet == [called |-> FALSE, ran |-> FALSE, accepted |-> FALSE, value |-> 0,
          tracker_m |-> 0, lifetime |-> NoData, recent |-> NoData,
          offset |-> 0]

\* No set_odometer service call was made yet.
AbsConstructed ==
    /\ offsetTasks = <<>>
    /\ lastSet = NoSet

\* No start() has replaced a running task.
LoopConstructed == orphans = <<>>

NoEdge == [fired |-> <<>>, subs |-> <<>>]

\* GeoRideTripsCoordinator.__init__: no subscriber yet.
StopConstructed ==
    /\ stopSubs = <<>>
    /\ stopEdges = 0
    /\ onStopCalls = 0
    /\ refreshRequested = FALSE
    /\ lastEdge = NoEdge

\* The polling coordinators.
Coordinators == {"recent", "lifetime", "status"}

\* DataUpdateCoordinator.__init__: last_update_success is True, data None.
HealthConstructed ==
    /\ last_update_success = [c \in Coordinators |-> TRUE]
    /\ statusData = "None"

\* Keys of SOCKET_BINARY_SENSOR_DESCRIPTIONS.
SensorKeys == {"moving", "stolen", "crashed"}

NoBin == [kind |-> "none", moving |-> "absent", before |-> FALSE]

\* GeoRideBinarySensor.__init__: _attr_is_on = False.
BinConstructed ==
    /\ is_on = [key \in SensorKeys |-> FALSE]
    /\ lastBin = NoBin

InitOdo ==
    /\ OdoConstructed
    /\ SockConstructed
    /\ sockToken = TRUE
    /\ FillConstructed
    /\ DispConstructed
    /\ ApiConstructed
    /\ SnapConstructed
    /\ AbsConstructed
    /\ LoopConstructed
    /\ StopConstructed
    /\ HealthConstructed
    /\ BinConstructed
    /\ markerEntity = FALSE
    /\ plein_pending_at = 0

NextOdo ==
    \/ RecentRefreshOk
    \/ RecentRefreshFailed
    \/ LifetimeRefreshOk
    \/ LifetimeRefreshFailed
    \/ OffsetChange

SpecOdo == InitOdo /\ [][NextOdo]_vars

(***************************************************************************)
(* Socket.IO manager: GeoRideSocketManager.                                *)
(* loopPc is the await at which the _run_loop task is suspended:           *)
(*   "none"        no task was created yet                                 *)
(*   "created"     the task is created and has not run yet                 *)
(*   "connecting"  in _connect, awaiting login / sio.connect               *)
(*   "subscribing" in the connect handler, awaiting an emit                *)
(*   "serving"     in _connect, awaiting sio.wait()                        *)
(*   "sleeping"    in _run_loop, awaiting asyncio.sleep(_reconnect_delay)  *)
(*   "ended"       the task has finished or was cancelled                  *)
(* The import of the socketio package in _connect is taken to succeed.     *)
(***************************************************************************)
RECONNECT_DELAY_INITIAL == 5
RECONNECT_DELAY_MAX == 300

\* Variant of the connect handler that leaves the delay as it is.
ConnectHandlerDelay_keep(d) == d

\* connect(): self._reconnect_delay = RECONNECT_DELAY_INITIAL
ConnectHandlerDelay(d) == RECONNECT_DELAY_INITIAL

\* Variant of the backoff step without the cap.
NextDelay_nocap(d) == d * 2

\* self._reconnect_delay = min(self._reconnect_delay * 2, RECONNECT_DELAY_MAX)
NextDelay(d) == Min(d * 2, RECONNECT_DELAY_MAX)

\* start(): set _should_run and create the _run_loop task.
SockStart ==
    /\ loopPc \in {"none", "ended"}
    /\ should_run' = TRUE
    /\ loopPc' = "created"
    /\ UNCHANGED <<connected, reconnect_delay, sockToken, was_connected,
                   emitted, lastWait, reconnects, odoVars, fillVars, dispVars, apiVars, snapVars, absVars,
                 loopVars, stopVars, healthVars, binVars>>

\* Top of the while loop of _run_loop, up to the first await of _connect.
LoopIterate ==
    IF should_run
    THEN /\ was_connected' = connected
         /\ loopPc' = "connecting"
    ELSE /\ loopPc' = "ended"
         /\ UNCHANGED was_connected

\* First run of the _run_loop task.
LoopBegin ==
    /\ loopPc = "created"
    /\ LoopIterate
    /\ UNCHANGED <<should_run, connected, reconnect_delay, sockToken,
                   emitted, lastWait, reconnects, odoVars, fillVars, dispVars, apiVars, snapVars, absVars,
                 loopVars, stopVars, healthVars, binVars>>

\* _run_loop after _connect has returned: reset the delay if the cycle
\* started connected, then sleep for the current delay.
BackoffSleep(delay) ==
    LET d == IF was_connected THEN RECONNECT_DELAY_INITIAL ELSE delay
    IN  /\ reconnect_delay' = d
        /\ lastWait' = d
        /\ loopPc' = "sleeping"

\* _connect returns without a connection: the login needed for a token
\* failed, or sio.connect raised; the finally clause clears _connected.
ConnectFails(kind) ==
    /\ loopPc = "connecting"
    /\ reconnects < MaxReconnects
    /\ kind = "login_failed" => ~sockToken
    /\ sockToken' = (IF kind = "login_failed" THEN FALSE ELSE TRUE)
    /\ connected' = FALSE
    /\ BackoffSleep(reconnect_delay)
    /\ UNCHANGED <<should_run, was_connected, emitted, reconnects, odoVars, fillVars, dispVars, apiVars, snapVars, absVars,
                 loopVars, stopVars, healthVars, binVars>>

\* sio.connect succeeds: the connect handler runs.
ConnectSucceeds ==
    /\ loopPc = "connecting"
    /\ sockToken' = TRUE
    /\ connected' = TRUE
    /\ reconnect_delay' = ConnectHandlerDelay(reconnect_delay)
    /\ emitted' = 0
    /\ reconnects' = 0
    /\ loopPc' = "subscribing"
    /\ UNCHANGED <<should_run, was_connected, lastWait, odoVars, fillVars, dispVars, apiVars, snapVars, absVars,
                 loopVars, stopVars, healthVars, binVars>>

\* connect(): await self._sio.emit("subscribe", tracker_id), one tracker
\* at a time; after the last one sio.connect returns and sio.wait() starts.
subscribed_all_first(sent) == sent >= 1

\* for tracker_id in self._tracker_ids: the loop of the connect handler ends
\* after the emit for the last tracker.
subscribed_all(sent) == sent = NTrackers

EmitSubscribe ==
    /\ loopPc = "subscribing"
    /\ emitted' = emitted + 1
    /\ loopPc' = IF subscribed_all(emitted + 1) THEN "serving" ELSE "subscribing"
    /\ UNCHANGED <<should_run, connected, reconnect_delay, sockToken,
                   was_connected, lastWait, reconnects, odoVars, fillVars, dispVars, apiVars, snapVars, absVars,
                 loopVars, stopVars, healthVars, binVars>>

\* The connection is lost: the disconnect handler and the finally clause
\* of _connect clear _connected, _connect returns, _run_loop sleeps.
Disconnected ==
    /\ loopPc \in {"subscribing", "serving"}
    /\ connected' = FALSE
    /\ BackoffSleep(reconnect_delay)
    /\ UNCHANGED <<should_run, sockToken, was_connected, emitted,
                   reconnects, odoVars, fillVars, dispVars, apiVars, snapVars, absVars,
                 loopVars, stopVars, healthVars, binVars>>

\* asyncio.sleep returns: double the delay and iterate.
Wake ==
    /\ loopPc = "sleeping"
    /\ reconnect_delay' = NextDelay(reconnect_delay)
    /\ reconnects' = reconnects + 1
    /\ LoopIterate
    /\ UNCHANGED <<should_run, connected, sockToken, emitted, lastWait, odoVars, fillVars, dispVars, apiVars, snapVars, absVars,
                 loopVars, stopVars, healthVars, binVars>>

cancel_task_ignored(pc) == pc

\* self._reconnect_task.cancel() and await self._reconnect_task: the task
\* gets CancelledError at the await it is suspended at; _connect lets it
\* through (its handlers are "except Exception") and _run_loop breaks or is
\* cancelled.
cancel_task(pc) == "ended"

\* stop(): clear _should_run, cancel the task and await it, _disconnect().
SockStop ==
    /\ loopPc \notin {"none", "ended"}
    /\ should_run' = FALSE
    /\ loopPc' = cancel_task(loopPc)
    /\ connected' = FALSE
    /\ UNCHANGED <<reconnect_delay, sockToken, was_connected, emitted,
                   lastWait, reconnects, odoVars, fillVars, dispVars, apiVars, snapVars, absVars,
                 loopVars, stopVars, healthVars, binVars>>

InitSock ==
    /\ OdoConstructed
    /\ SockConstructed
    /\ sockToken \in BOOLEAN
    /\ FillConstructed
    /\ DispConstructed
    /\ ApiConstructed
    /\ SnapConstructed
    /\ AbsConstructed
    /\ LoopConstructed
    /\ StopConstructed
    /\ HealthConstructed
    /\ BinConstructed
    /\ markerEntity = FALSE
    /\ plein_pending_at = 0

NextSock ==
    \/ SockStart
    \/ LoopBegin
    \/ \E kind \in {"login_failed", "connect_failed"} : ConnectFails(kind)
    \/ ConnectSucceeds
    \/ EmitSubscribe
    \/ Disconnected
    \/ Wake
    \/ SockStop

SpecSock == InitSock /\ [][NextSock]_vars

(***************************************************************************)
(* Fill-up workflow: GeoRideConfirmerPleinButton, and the lock-transition  *)
(* detector of GeoRideTripsCoordinator that triggers its computation.      *)
(*                                                                         *)
(* async_press suspends at the datetime.set_value service call when the    *)
(* registry resolves the marker entity; _set_datetime returns without      *)
(* awaiting anything when it does not.  DATETIME_DESCRIPTIONS of           *)
(* datetime.py declares no plein_pending_at key; what the registry of the  *)
(* host holds is an input, so both cases are modelled (markerEntity).      *)
(*                                                                         *)
(* A press coroutine is a record of its press number and of the await at   *)
(* which it is suspended: "set_value" before the service has written the   *)
(* entity, "resume" after.  A compute task is a record of the press whose  *)
(* callback created it, its position ("created" before its first step,     *)
(* "fetch" at the await of get_trips) and the locals read at its start.    *)
(* The service calls that follow the await of get_trips are taken as one   *)
(* step with the return of the task.                                       *)
(*                                                                         *)
(* The callbacks that the sensors register through _register_stop_cb have  *)
(* no effect on the workflow and are left out of the list.                 *)
(***************************************************************************)
\* GeoRideConfirmerPleinButton.HIST_SLOTS
HIST_SLOTS == 3

\* Readings of sensor.<moto>_odometer (ckm); 0 is also what _get_float
\* returns for a missing or unavailable sensor.
OdometerReadings == {0, 100, 48000, 51430}

\* Trips the server may hold between the fill-up and the lock.
PostWindows == {{}, {[startTime |-> 1, endTime |-> 1, distance |-> 1234]}}

LockStates == {"None", "False", "True"}

\* _get_datetime("plein_pending_at"): 0 stands for None.
get_datetime == IF markerEntity THEN plein_pending_at ELSE 0

\* _set_datetime("plein_pending_at", value): the state of the entity after
\* the call; value 0 stands for None, written as the 1970 sentinel.
set_datetime(value) == IF markerEntity THEN value ELSE plein_pending_at

\* on_stop_confirmed(callback): the list after the append.
on_stop_confirmed(callbacks, press) == Append(callbacks, press)

\* unregister(): list.remove(callback) removes the first element equal to
\* the callback; the bound methods the button registers are all equal.
unregister(callbacks) == IF callbacks = <<>> THEN callbacks ELSE Tail(callbacks)

\* _cancel_pending(): the list of callbacks afterwards.
cancel_pending(callbacks, unreg) == IF unreg THEN unregister(callbacks) ELSE callbacks

\* Variant of the distance below that counts the trips of the range
\* whatever became of the request.
fetch_post_plein_distance_anyway(s, trips) == PyRound(SumDistance(trips), 10)

\* _fetch_post_plein_distance: km rounded to two decimals, in ckm.
fetch_post_plein_distance(s, trips) == PyRound(SumDistance(get_trips(s, trips)), 10)

\* odometer_au_plein = round(odometer_actuel - distance_post_plein, 2)
odometer_au_plein(odometer_actuel, distance_post_plein) ==
    odometer_actuel - distance_post_plein

\* distance_inter_plein = round(odometer_au_plein - km_dernier_plein, 1)
distance_inter_plein(au_plein, km_dernier_plein) ==
    PyRound(au_plein - km_dernier_plein, 10) * 10

\* Variant of the test below that accepts a distance of zero.
InterPleinRejected_strict(d) == d < 0

\* if distance_inter_plein <= 0
InterPleinRejected(d) == d <= 0

\* slots = [s for s in [distance_inter_plein, hist_1, hist_2] if s > 0]
\* slots = slots[:HIST_SLOTS]
slots(d, hist_1, hist_2) ==
    SubSeq(SelectSeq(<<d, hist_1, hist_2>>, LAMBDA x : x > 0), 1,
           Min(HIST_SLOTS, Len(SelectSeq(<<d, hist_1, hist_2>>, LAMBDA x : x > 0))))

RECURSIVE SumSeq(_)
SumSeq(q) == IF q = <<>> THEN 0 ELSE Head(q) + SumSeq(Tail(q))

\* moyenne = round(sum(slots) / len(slots)): whole kilometres, in ckm.
\* The division raises ZeroDivisionError when no slot is positive.
moyenne(sl) == PyRound(SumSeq(sl), 100 * Len(sl)) * 100

\* Variant of the path below without the branch of the first fill-up.
ExitKind_noFirst(au_plein, km_dernier_plein) ==
    IF au_plein <= 0 THEN "bad_fillup"
    ELSE IF InterPleinRejected(distance_inter_plein(au_plein, km_dernier_plein))
         THEN "bad_distance"
    ELSE "recorded"

\* The path _compute_and_record_plein takes after the await of get_trips.
ExitKind(au_plein, km_dernier_plein) ==
    IF au_plein <= 0 THEN "bad_fillup"
    ELSE IF km_dernier_plein = 0 THEN "first"
    ELSE IF InterPleinRejected(distance_inter_plein(au_plein, km_dernier_plein))
         THEN "bad_distance"
    ELSE IF slots(distance_inter_plein(au_plein, km_dernier_plein),
                  fuel.km_plein_hist_1, fuel.km_plein_hist_2) = <<>>
         THEN "raised"      \* the task ends with the exception of moyenne
    ELSE "recorded"

\* Variant of the numbers below in which slot 2 receives the new distance
\* (slot 1 written before slot 2 is filled from it).
FuelOnExit_slotOverwritten(kind, au_plein, km_dernier_plein) ==
    IF kind = "first"
    THEN [fuel EXCEPT !.km_dernier_plein = au_plein,
                      !.nb_pleins_enregistres = 1]
    ELSE IF kind = "recorded"
    THEN LET d == distance_inter_plein(au_plein, km_dernier_plein)
         IN  [km_dernier_plein |-> au_plein,
              km_plein_hist_1 |-> d,
              km_plein_hist_2 |-> d,
              km_plein_hist_3 |-> fuel.km_plein_hist_2,
              autonomie_moyenne_calculee |->
                  moyenne(slots(d, fuel.km_plein_hist_1, fuel.km_plein_hist_2)),
              nb_pleins_enregistres |-> fuel.nb_pleins_enregistres + 1]
    ELSE fuel

\* The fuel-history numbers after the _set_number calls of that path.
FuelOnExit(kind, au_plein, km_dernier_plein) ==
    IF kind = "first"
    THEN [fuel EXCEPT !.km_dernier_plein = au_plein,
                      !.nb_pleins_enregistres = 1]
    ELSE IF kind = "recorded"
    THEN LET d == distance_inter_plein(au_plein, km_dernier_plein)
             hist_1 == fuel.km_plein_hist_1
             hist_2 == fuel.km_plein_hist_2
         IN  [km_dernier_plein |-> au_plein,
              km_plein_hist_1 |-> d,
              km_plein_hist_2 |-> hist_1,
              km_plein_hist_3 |-> hist_2,
              autonomie_moyenne_calculee |-> moyenne(slots(d, hist_1, hist_2)),
              nb_pleins_enregistres |-> fuel.nb_pleins_enregistres + 1]
    ELSE IF kind = "raised"
    THEN [fuel EXCEPT !.km_plein_hist_1 =
                           distance_inter_plein(au_plein, km_dernier_plein),
                      !.km_plein_hist_2 = fuel.km_plein_hist_1,
                      !.km_plein_hist_3 = fuel.km_plein_hist_2]
    ELSE fuel

\* Variant of the exits below in which the abort on a non-positive
\* inter-fill-up distance returns without resetting the marker.
MarkerOnExit_keepOnAbort(kind) ==
    IF kind \in {"no_marker", "raised", "bad_distance"} THEN plein_pending_at
    ELSE set_datetime(0)

\* The marker after the exit: every return but the one on a missing marker
\* is preceded by await _set_datetime("plein_pending_at", None).
MarkerOnExit(kind) ==
    IF kind \in {"no_marker", "raised"} THEN plein_pending_at ELSE set_datetime(0)

Exit(kind, t, failed, got, au_plein, api_m) ==
    [kind |-> kind, press |-> t.press, api_failed |-> failed, obtained |-> got,
     odometer_au_plein |-> au_plein, km_dernier_plein |-> t.km_dernier_plein,
     odometer_actuel |-> t.odometer_actuel, api_m |-> api_m]

\* Variant of the test below that also fires when no lock state was
\* observed before.
lock_transition_unlessLocked(last, data) == data = "Locked" /\ last # "True"

\* Variant of the test below that fires on every locked observation.
lock_transition_always(last, data) == data = "Locked"

\* if is_locked and self._last_locked_state is False
lock_transition(last, data) == data = "Locked" /\ last = "False"

\* Variant of the list below in which the callbacks stay registered.
remaining_after_lock_kept(callbacks) == callbacks

\* self._stop_confirmed_callbacks.clear()
remaining_after_lock(callbacks) == <<>>

\* bool(data.get("isLocked", False)) as a value of _last_locked_state
is_locked(data) == IF data = "Locked" THEN "True" ELSE "False"

Obs(kind, data, fired) ==
    [kind |-> kind, prev |-> last_locked_state,
     bit |-> IF data \in {"None", "Empty"} THEN "none" ELSE is_locked(data),
     subs |-> stop_confirmed_callbacks, fired |-> fired]

\* async_added_to_hass of the button: a marker found set is reset.  visible
\* tells whether hass.states holds the state of the marker entity at that
\* moment (the button platform is set up before the datetime platform).
AddedToHass(visible) ==
    /\ ~added
    /\ added' = TRUE
    /\ plein_pending_at' = IF visible /\ get_datetime # 0 THEN set_datetime(0)
                           ELSE plein_pending_at
    /\ lastExit' = NoExit
    /\ lastObs' = NoObs
    /\ UNCHANGED <<markerEntity, fuel, stop_confirmed_callbacks,
                   unregister_stop_cb, attached, last_locked_state, presses,
                   computes, pressCount, history, odoVars, sockVars, dispVars, apiVars, snapVars, absVars,
                 loopVars, stopVars, healthVars, binVars>>

\* attach_status_coordinator(status_coordinator); data is the data of the
\* status coordinator at that moment.
Attach(data) ==
    /\ ~attached
    /\ attached' = TRUE
    /\ last_locked_state' = IF data \in {"None", "Empty"} THEN last_locked_state
                            ELSE is_locked(data)
    /\ lastExit' = NoExit
    /\ lastObs' = Obs("attach", data, <<>>)
    /\ UNCHANGED <<markerEntity, plein_pending_at, fuel, stop_confirmed_callbacks,
                   unregister_stop_cb, presses, computes, pressCount, added,
                   history, odoVars, sockVars, dispVars, apiVars, snapVars, absVars,
                 loopVars, stopVars, healthVars, binVars>>

\* _on_lock_confirmed(): empty the list and call every callback;
\* _on_stop_confirmed_for_plein drops the unregister handle and creates a
\* _compute_and_record_plein task.
on_lock_confirmed ==
    /\ stop_confirmed_callbacks' = remaining_after_lock(stop_confirmed_callbacks)
    /\ unregister_stop_cb' = IF stop_confirmed_callbacks = <<>>
                             THEN unregister_stop_cb ELSE FALSE
    /\ computes' = computes \cup
          {[press |-> stop_confirmed_callbacks[i], pc |-> "created",
            plein_dt |-> 0, km_dernier_plein |-> 0, odometer_actuel |-> 0] :
             i \in 1..Len(stop_confirmed_callbacks)}

\* A poll of the status coordinator delivers data: _handle_status_update.
StatusUpdate(data) ==
    /\ attached
    /\ lastExit' = NoExit
    /\ IF data = "Empty"
       THEN /\ lastObs' = Obs("update", data, <<>>)
            /\ UNCHANGED <<last_locked_state, stop_confirmed_callbacks,
                           unregister_stop_cb, computes>>
       ELSE /\ IF lock_transition(last_locked_state, data)
               THEN /\ on_lock_confirmed
                    /\ lastObs' = Obs("update", data, stop_confirmed_callbacks)
               ELSE /\ lastObs' = Obs("update", data, <<>>)
                    /\ UNCHANGED <<stop_confirmed_callbacks, unregister_stop_cb,
                                   computes>>
            /\ last_locked_state' = is_locked(data)
    /\ UNCHANGED <<markerEntity, plein_pending_at, fuel, attached, presses,
                   pressCount, added, history, odoVars, sockVars, dispVars, apiVars, snapVars, absVars,
                 loopVars, stopVars, healthVars, binVars>>

\* async_press up to its await: cancel a pending subscription, take the
\* time, call _set_datetime.  Without a marker entity _set_datetime returns
\* at once and the press registers its callback in the same step.  The
\* button can be pressed limit times.
Press(limit) ==
    /\ added
    /\ pressCount < limit
    /\ pressCount' = pressCount + 1
    /\ lastExit' = NoExit
    /\ lastObs' = NoObs
    /\ LET now == pressCount + 1
           cbs == cancel_pending(stop_confirmed_callbacks, unregister_stop_cb)
       IN  IF markerEntity
           THEN /\ presses' = presses \cup {[press |-> now, pc |-> "set_value"]}
                /\ stop_confirmed_callbacks' = cbs
                /\ unregister_stop_cb' = FALSE
           ELSE /\ stop_confirmed_callbacks' = on_stop_confirmed(cbs, now)
                /\ unregister_stop_cb' = TRUE
                /\ UNCHANGED presses
    /\ UNCHANGED <<markerEntity, plein_pending_at, fuel, attached,
                   last_locked_state, computes, added, history, odoVars, sockVars, dispVars, apiVars, snapVars, absVars,
                 loopVars, stopVars, healthVars, binVars>>

PressBegin == Press(MaxPress)

\* The datetime.set_value service called by press p writes the entity.
PressSetValue(p) ==
    /\ p.pc = "set_value"
    /\ plein_pending_at' = set_datetime(p.press)
    /\ presses' = (presses \ {p}) \cup {[p EXCEPT !.pc = "resume"]}
    /\ lastExit' = NoExit
    /\ lastObs' = NoObs
    /\ UNCHANGED <<markerEntity, fuel, stop_confirmed_callbacks,
                   unregister_stop_cb, attached, last_locked_state, computes,
                   pressCount, added, history, odoVars, sockVars, dispVars, apiVars, snapVars, absVars,
                 loopVars, stopVars, healthVars, binVars>>

\* async_press after its await: subscribe to the next lock.
PressRegister(p) ==
    /\ p.pc = "resume"
    /\ stop_confirmed_callbacks' = on_stop_confirmed(stop_confirmed_callbacks, p.press)
    /\ unregister_stop_cb' = TRUE
    /\ presses' = presses \ {p}
    /\ lastExit' = NoExit
    /\ lastObs' = NoObs
    /\ UNCHANGED <<markerEntity, plein_pending_at, fuel, attached,
                   last_locked_state, computes, pressCount, added, history,
                   odoVars, sockVars, dispVars, apiVars, snapVars, absVars,
                 loopVars, stopVars, healthVars, binVars>>

\* _compute_and_record_plein from its start to its first await or return;
\* odometer is the state of sensor.<moto>_odometer.
ComputeStart(t, odometer) ==
    /\ t.pc = "created"
    /\ LET plein_dt == get_datetime
           started == [t EXCEPT !.pc = "fetch", !.plein_dt = plein_dt,
                                !.km_dernier_plein = fuel.km_dernier_plein,
                                !.odometer_actuel = odometer]
       IN  IF plein_dt = 0
           THEN /\ computes' = computes \ {t}
                /\ plein_pending_at' = MarkerOnExit("no_marker")
                /\ lastExit' = Exit("no_marker", started, FALSE, FALSE, 0, 0)
           ELSE IF odometer <= 0
           THEN /\ computes' = computes \ {t}
                /\ plein_pending_at' = MarkerOnExit("bad_odometer")
                /\ lastExit' = Exit("bad_odometer", started, FALSE, FALSE, 0, 0)
           ELSE /\ computes' = (computes \ {t}) \cup {started}
                /\ lastExit' = NoExit
                /\ UNCHANGED plein_pending_at
    /\ lastObs' = NoObs
    /\ UNCHANGED <<markerEntity, fuel, stop_confirmed_callbacks,
                   unregister_stop_cb, attached, last_locked_state, presses,
                   pressCount, added, history, odoVars, sockVars, dispVars, apiVars, snapVars, absVars,
                 loopVars, stopVars, healthVars, binVars>>

\* _compute_and_record_plein from the return of get_trips to its return;
\* the server follows script s and holds `trips' for the range.
ComputeAfterFetch(t, s, trips) ==
    /\ t.pc = "fetch"
    /\ LET au_plein == odometer_au_plein(t.odometer_actuel,
                                         fetch_post_plein_distance(s, trips))
           kind == ExitKind(au_plein, t.km_dernier_plein)
       IN  /\ fuel' = FuelOnExit(kind, au_plein, t.km_dernier_plein)
           /\ plein_pending_at' = MarkerOnExit(kind)
           /\ lastExit' = Exit(kind, t, ~ScriptSucceeds(s), TRUE, au_plein,
                               SumDistance(get_trips(s, trips)))
           /\ history' = IF kind = "recorded"
                         THEN Append(history,
                                  distance_inter_plein(au_plein, t.km_dernier_plein))
                         ELSE history
    /\ computes' = computes \ {t}
    /\ lastObs' = NoObs
    /\ UNCHANGED <<markerEntity, stop_confirmed_callbacks, unregister_stop_cb,
                   attached, last_locked_state, presses, pressCount, added,
                   odoVars, sockVars, dispVars, apiVars, snapVars, absVars,
                 loopVars, stopVars, healthVars, binVars>>

ButtonAdded == \E visible \in BOOLEAN : AddedToHass(visible)
StatusAttached ==
    \E data \in {"None", "Empty", "NoField", "Locked", "Unlocked"} : Attach(data)
StatusPolled ==
    \E data \in {"Empty", "NoField", "Locked", "Unlocked"} : StatusUpdate(data)
PressServiceRuns == \E p \in presses : PressSetValue(p)
PressResumes == \E p \in presses : PressRegister(p)
ComputeStarts == \E t \in computes, o \in OdometerReadings : ComputeStart(t, o)
ComputeFinishes == \E t \in computes, s \in ServerScripts, w \in PostWindows :
                       ComputeAfterFetch(t, s, w)

\* The marker the datetime entity restores when the process starts: the
\* sentinel, or the time of a press made before the restart.
StaleMarker == -1
RestoredMarkers == IF markerEntity THEN {0, StaleMarker} ELSE {0}

InitFill ==
    /\ OdoConstructed
    /\ SockConstructed
    /\ sockToken = TRUE
    /\ FillConstructed
    /\ DispConstructed
    /\ ApiConstructed
    /\ SnapConstructed
    /\ AbsConstructed
    /\ LoopConstructed
    /\ StopConstructed
    /\ HealthConstructed
    /\ BinConstructed
    /\ markerEntity \in BOOLEAN
    /\ plein_pending_at \in RestoredMarkers

NextFill ==
    \/ ButtonAdded
    \/ StatusAttached
    \/ StatusPolled
    \/ PressBegin
    \/ PressServiceRuns
    \/ PressResumes
    \/ ComputeStarts
    \/ ComputeFinishes

SpecFill == InitFill /\ [][NextFill]_vars

\* The event loop runs every task that is ready: a press whose service call
\* can proceed or has returned, a compute task that was created or whose
\* request was answered.  Presses and status data come from outside.
SpecFillFair ==
    /\ SpecFill
    /\ WF_vars(PressServiceRuns)
    /\ WF_vars(PressResumes)
    /\ WF_vars(ComputeStarts)
    /\ WF_vars(ComputeFinishes)

(***************************************************************************)
(* The same workflow with the fill-ups made one at a time: the button is   *)
(* pressed only when no press, wait or computation of an earlier fill-up   *)
(* is under way, and the marker entity exists (SpecHist).                  *)
(***************************************************************************)
\* Odometer readings (ckm) at the successive locks.
HistReadings == {48000, 51430, 53440, 56450, 60000}

Quiet ==
    /\ presses = {}
    /\ computes = {}
    /\ stop_confirmed_callbacks = <<>>

HistPress == Quiet /\ Press(MaxCycles)
HistComputeStarts == \E t \in computes, o \in HistReadings : ComputeStart(t, o)

InitHist ==
    /\ OdoConstructed
    /\ SockConstructed
    /\ sockToken = TRUE
    /\ FillConstructed
    /\ DispConstructed
    /\ ApiConstructed
    /\ SnapConstructed
    /\ AbsConstructed
    /\ LoopConstructed
    /\ StopConstructed
    /\ HealthConstructed
    /\ BinConstructed
    /\ markerEntity = TRUE
    /\ plein_pending_at = 0

NextHist ==
    \/ ButtonAdded
    \/ StatusAttached
    \/ StatusPolled
    \/ HistPress
    \/ PressServiceRuns
    \/ PressResumes
    \/ HistComputeStarts
    \/ ComputeFinishes

SpecHist == InitHist /\ [][NextHist]_vars

(***************************************************************************)
(* Dispatch of live messages to the entities' callbacks:                   *)
(* GeoRideSocketManager.register_callback and _dispatch.                   *)
(***************************************************************************)
\* Callbacks an entity may register: a plain function and a coroutine
\* function.
Handlers == {"cb", "coro"}

\* asyncio.iscoroutinefunction(cb)
iscoroutinefunction(cb) == cb = "coro"

\* What one call of a callback does: it returns, it raises an Exception, or
\* (a coroutine only) it suspends at an await of its own.
Outcomes == {"return", "raise", "suspend"}

Payloads ==
    {NoTrackerId, NullTrackerId}
        \cup {[has |-> TRUE, type |-> "int", val |-> n] : n \in PayloadIds}

\* str(value) for the values a "trackerId" key holds.
str(data) == IF data.type = "int" THEN ToString(data.val) ELSE "None"

tracker_id_guessed(data) == IF data.has THEN str(data) ELSE "1"

\* tracker_id = str(data.get("trackerId", ""))
tracker_id(data) == IF data.has THEN str(data) ELSE ""

\* self._callbacks.get(tracker_id, {}).get(event_name, [])
callbacks_for(tracker, event_name) ==
    IF tracker \in Devices THEN _callbacks[<<tracker, event_name>>] ELSE <<>>

\* list.remove(callback): the list without the first element equal to
\* callback, unchanged (ValueError, swallowed) when there is none.
RECURSIVE list_remove(_, _)
list_remove(list, callback) ==
    IF list = <<>> THEN <<>>
    ELSE IF Head(list) = callback THEN Tail(list)
    ELSE <<Head(list)>> \o list_remove(Tail(list), callback)

\* The callbacks of the registrations for (tracker, event_name) whose
\* unregister function was never called, in the order of registration.
RECURSIVE live_callbacks(_, _, _)
live_callbacks(toks, tracker, event_name) ==
    IF toks = <<>> THEN <<>>
    ELSE LET t == Head(toks)
             rest == live_callbacks(Tail(toks), tracker, event_name)
         IN  IF t.tracker_id = tracker /\ t.event_name = event_name /\ ~t.called
             THEN <<t.callback>> \o rest
             ELSE rest

except_Exception_none(outcome) == FALSE

\* except Exception as err: the exception of a callback is logged.
except_Exception(outcome) == outcome = "raise"

\* The for loop of _dispatch from callback number pos on, up to its end or
\* to the first callback that suspends; outs[p] is what the call of callback
\* number p does.
RECURSIVE run_callbacks(_, _, _, _)
run_callbacks(list, pos, outs, raised) ==
    IF pos > Len(list)
    THEN [pc |-> "done", next |-> pos, raised |-> raised, surfaced |-> FALSE]
    ELSE IF outs[pos] = "suspend" /\ iscoroutinefunction(list[pos])
    THEN [pc |-> "awaiting", next |-> pos, raised |-> raised,
          surfaced |-> FALSE]
    ELSE IF outs[pos] = "raise"
    THEN IF except_Exception(outs[pos])
         THEN run_callbacks(list, pos + 1, outs, raised \cup {pos})
         ELSE [pc |-> "done", next |-> pos + 1, raised |-> raised \cup {pos},
               surfaced |-> TRUE]
    ELSE run_callbacks(list, pos + 1, outs, raised)

\* hass.bus.async_fire after the dispatch, in on_alarm (on_position has none).
bus_event(event_name, surfaced) ==
    IF event_name = "alarm" /\ ~surfaced THEN "georide_alarm_event" ELSE "none"

\* register_callback(tracker_id, event_name, callback), returning the
\* unregister function number Len(tokens) + 1.
register_callback(tracker, event_name, callback) ==
    /\ Len(tokens) < MaxSubs
    /\ _callbacks' = [_callbacks EXCEPT ![<<tracker, event_name>>] =
                          Append(@, callback)]
    /\ tokens' = Append(tokens, [tracker_id |-> tracker,
                                 event_name |-> event_name,
                                 callback |-> callback, called |-> FALSE])
    /\ lastDisp' = NoDisp
    /\ UNCHANGED <<tasks, odoVars, sockVars, fillVars,
                 apiVars, snapVars, absVars,
                 loopVars, stopVars, healthVars, binVars>>

\* A call of the unregister function number n, whether or not it was called
\* before.
unregister_callback(n) ==
    /\ n \in 1..Len(tokens)
    /\ LET t == tokens[n] IN
        /\ _callbacks' = [_callbacks EXCEPT ![<<t.tracker_id, t.event_name>>] =
                              list_remove(@, t.callback)]
        /\ tokens' = [tokens EXCEPT ![n].called = TRUE]
    /\ lastDisp' = NoDisp
    /\ UNCHANGED <<tasks, odoVars, sockVars, fillVars,
                 apiVars, snapVars, absVars,
                 loopVars, stopVars, healthVars, binVars>>

\* The client receives a message while connected: the library creates the
\* task that will call on_position / on_alarm with its payload.
Receive(event_name, data) ==
    /\ connected
    /\ Len(tasks) < MaxMsgs
    /\ tasks' = Append(tasks, [event_name |-> event_name, data |-> data,
                               pc |-> "ready", list |-> <<>>, live |-> <<>>,
                               next |-> 1, raised |-> {}])
    /\ lastDisp' = NoDisp
    /\ UNCHANGED <<_callbacks, tokens, odoVars, sockVars, fillVars,
                 apiVars, snapVars, absVars,
                 loopVars, stopVars, healthVars, binVars>>

\* The sequence s without its element number i.
RemoveAt(s, i) == SubSeq(s, 1, i - 1) \o SubSeq(s, i + 1, Len(s))

\* Task number i runs the loop of _dispatch over list from callback number
\* from on, until the loop ends or a callback suspends.
Run(i, kind, list, live, from, raised, outs) ==
    LET t == tasks[i]
        r == run_callbacks(list, from, outs, raised)
    IN  /\ tasks' = IF r.pc = "done" THEN RemoveAt(tasks, i)
                    ELSE [tasks EXCEPT ![i] = [t EXCEPT !.pc = "awaiting",
                                                        !.list = list,
                                                        !.live = live,
                                                        !.next = r.next,
                                                        !.raised = r.raised]]
        /\ lastDisp' = [kind |-> IF r.pc = "done" THEN "done" ELSE "suspended",
                        index |-> i, event_name |-> t.event_name,
                        data |-> t.data, list |-> list, live |-> live,
                        from |-> IF kind = "resume" THEN from + 1 ELSE from,
                        next |-> r.next, raised |-> r.raised,
                        surfaced |-> r.surfaced,
                        bus |-> IF r.pc = "done"
                                THEN bus_event(t.event_name, r.surfaced)
                                ELSE "none"]

\* The oldest task not yet started starts: on_position / on_alarm calls
\* _dispatch, which drops the message or copies the list of callbacks and
\* calls them.
dispatch(i) ==
    /\ i \in 1..Len(tasks)
    /\ tasks[i].pc = "ready"
    /\ \A j \in 1..(i - 1) : tasks[j].pc # "ready"
    /\ LET t == tasks[i]
           tracker == tracker_id(t.data)
           list == callbacks_for(tracker, t.event_name)
       IN  IF tracker = ""
           THEN /\ tasks' = RemoveAt(tasks, i)
                /\ lastDisp' = [NoDisp EXCEPT
                                    !.kind = "dropped", !.index = i,
                                    !.event_name = t.event_name,
                                    !.data = t.data,
                                    !.bus = bus_event(t.event_name, FALSE)]
           ELSE \E outs \in [1..Len(list) -> Outcomes] :
                    Run(i, "start", list,
                        live_callbacks(tokens, tracker, t.event_name), 1, {},
                        outs)
    /\ UNCHANGED <<_callbacks, tokens, odoVars, sockVars, fillVars,
                 apiVars, snapVars, absVars,
                 loopVars, stopVars, healthVars, binVars>>

\* The callback a task is suspended in returns or raises, and the loop of
\* _dispatch goes on.
dispatch_resume(i) ==
    /\ i \in 1..Len(tasks)
    /\ tasks[i].pc = "awaiting"
    /\ \E outs \in [1..Len(tasks[i].list) -> Outcomes] :
        /\ outs[tasks[i].next] # "suspend"
        /\ Run(i, "resume", tasks[i].list, tasks[i].live, tasks[i].next,
               tasks[i].raised, outs)
    /\ UNCHANGED <<_callbacks, tokens, odoVars, sockVars, fillVars,
                 apiVars, snapVars, absVars,
                 loopVars, stopVars, healthVars, binVars>>

Subscribe ==
    \E tracker \in Devices, event_name \in Kinds, callback \in Handlers :
        register_callback(tracker, event_name, callback)

Unsubscribe == \E n \in 1..Len(tokens) : unregister_callback(n)

MessageArrives ==
    \E event_name \in Kinds, data \in Payloads : Receive(event_name, data)

DispatchStarts == \E i \in 1..Len(tasks) : dispatch(i)

DispatchResumes == \E i \in 1..Len(tasks) : dispatch_resume(i)

\* The connection is up and every tracker is subscribed: what _run_loop
\* reaches through connect() when the server accepts the connection.
Serving ==
    /\ should_run = TRUE
    /\ connected = TRUE
    /\ reconnect_delay = RECONNECT_DELAY_INITIAL
    /\ sockToken = TRUE
    /\ loopPc = "serving"
    /\ was_connected = FALSE
    /\ emitted = NTrackers
    /\ lastWait = 0
    /\ reconnects = 0

InitDisp ==
    /\ OdoConstructed
    /\ Serving
    /\ FillConstructed
    /\ markerEntity = FALSE
    /\ plein_pending_at = 0
    /\ DispConstructed
    /\ ApiConstructed
    /\ SnapConstructed
    /\ AbsConstructed
    /\ LoopConstructed
    /\ StopConstructed
    /\ HealthConstructed
    /\ BinConstructed

NextDisp ==
    \/ Subscribe
    \/ Unsubscribe
    \/ MessageArrives
    \/ DispatchStarts
    \/ DispatchResumes

SpecDisp == InitDisp /\ [][NextDisp]_vars

(***************************************************************************)
(* Telemetry API client, request by request: GeoRideTripsAPI.              *)
(* A call of a method is followed from its request to its return: the      *)
(* server answers the request with a status (or the request raises), the   *)
(* method returns or logs in again and calls itself.  The client is        *)
(* logged in when the integration is set up (__init__.py), and its token   *)
(* is never reset, so the login at the head of the methods is not taken.   *)
(* apiCall.pc is "request" while the call awaits the answer to a request,  *)
(* "login" while it awaits login() in its 401 branch, and "returned".      *)
(***************************************************************************)
Statuses == Answers \cup {"204"}

\* The first branch of the method: response.status == 200, and for
\* set_eco_mode response.status in (200, 204).
succeeds(op, status) ==
    IF op = "set_eco_mode" THEN status \in {"200", "204"} ELSE status = "200"

\* The 401 branch of the method: `elif response.status == 401 and _retry'
\* in get_trips and get_trip_positions_by_date, `elif response.status ==
\* 401' in set_eco_mode; get_trackers and get_trip_positions have none.
relogs(op, status, _retry) ==
    /\ status = "401"
    /\ \/ op \in {"get_trips", "get_trip_positions_by_date"} /\ _retry
       \/ op = "set_eco_mode"

\* What the method returns without a further request.
returned(op, status) ==
    IF op = "set_eco_mode"
    THEN IF succeeds(op, status) THEN "True" ELSE "False"
    ELSE IF succeeds(op, status) THEN "data" ELSE "[]"

\* The call after the answer `status' to its request.
after_response(c, status) ==
    IF succeeds(c.op, status)
    THEN [c EXCEPT !.answers = Append(@, status), !.pc = "returned",
                   !.result = returned(c.op, status)]
    ELSE IF relogs(c.op, status, c._retry)
         THEN [c EXCEPT !.answers = Append(@, status), !.pc = "login"]
         ELSE [c EXCEPT !.answers = Append(@, status), !.pc = "returned",
                        !.result = returned(c.op, status)]

\* The call after login() returned ok in its 401 branch: get_trips and
\* get_trip_positions_by_date return [] when it failed and call themselves
\* with _retry=False otherwise; set_eco_mode does not look at the outcome
\* and calls itself with the same arguments.
after_login(c, ok) ==
    IF c.op = "set_eco_mode"
    THEN [c EXCEPT !.logins = Append(@, ok), !.pc = "request"]
    ELSE IF ok
         THEN [c EXCEPT !.logins = Append(@, ok), !.pc = "request",
                        !._retry = FALSE]
         ELSE [c EXCEPT !.logins = Append(@, ok), !.pc = "returned",
                        !.result = "[]"]

\* A caller calls a method of the client.
ApiCallStarts ==
    /\ apiCall.pc = "returned"
    /\ \E op \in Ops :
          apiCall' = [op |-> op, pc |-> "request", _retry |-> TRUE,
                      answers |-> <<>>, logins |-> <<>>, result |-> "none"]
    /\ UNCHANGED <<odoVars, sockVars, fillVars, dispVars, snapVars, absVars,
                 loopVars, stopVars, healthVars, binVars>>

\* The server answers the request of the call.
ServerAnswers ==
    /\ apiCall.pc = "request"
    /\ Len(apiCall.answers) < MaxRequests
    /\ \E status \in Statuses : apiCall' = after_response(apiCall, status)
    /\ UNCHANGED <<odoVars, sockVars, fillVars, dispVars, snapVars, absVars,
                 loopVars, stopVars, healthVars, binVars>>

\* login() returns to the 401 branch of the call.
LoginReturns ==
    /\ apiCall.pc = "login"
    /\ \E ok \in BOOLEAN : apiCall' = after_login(apiCall, ok)
    /\ UNCHANGED <<odoVars, sockVars, fillVars, dispVars, snapVars, absVars,
                 loopVars, stopVars, healthVars, binVars>>

InitApi ==
    /\ OdoConstructed
    /\ SockConstructed
    /\ sockToken = TRUE
    /\ FillConstructed
    /\ DispConstructed
    /\ ApiConstructed
    /\ SnapConstructed
    /\ AbsConstructed
    /\ LoopConstructed
    /\ StopConstructed
    /\ HealthConstructed
    /\ BinConstructed
    /\ markerEntity = FALSE
    /\ plein_pending_at = 0

NextApi ==
    \/ ApiCallStarts
    \/ ServerAnswers
    \/ LoginReturns

SpecApi == InitApi /\ [][NextApi]_vars

(***************************************************************************)
(* Midnight snapshots: GeoRideMidnightSnapshotManager.                     *)
(* _midnight_callback reads the odometer sensor and, through _set_number,  *)
(* creates one task per snapshot to write; each task calls the service     *)
(* number.set_value at a later step, in the order of its creation.  The    *)
(* host checks the value of number.set_value against the range of the      *)
(* entity (number.py) and rejects a value outside it.  The tasks of one    *)
(* midnight have run long before the next midnight.                        *)
(* Dates are the weekday (0 is Monday) and the day of the month of `now'.  *)
(***************************************************************************)
\* Range of the km_debut_* numbers (number.py), in ckm.
KM_DEBUT_MIN == 0
KM_DEBUT_MAX == 20000000

\* The windows a refresh of the lifetime coordinator may deliver while the
\* snapshots are followed; the recent coordinator is delivered no trip.
SnapWindows == {{}, {[startTime |-> 1, endTime |-> 1, distance |-> 12300]}}

\* Values (metres) of the odometer offset while the snapshots are
\* followed; with the negative one the odometer may read below zero.
SnapOffsets == {0, -5000}

\* now.weekday() and now.day of the midnights followed.
Weekdays == {0, 6}
MonthDays == {1, 15}

\* States of number.<moto>_jour_stats_mensuelles.
JoursMensuels == {[state |-> "unavailable", value |-> 0]}
                 \cup {[state |-> "ok", value |-> j] : j \in {1, 15}}

\* _get_float(entity_id, default)
_get_float(state, default) ==
    IF state.state \in {"unknown", "unavailable"} THEN default
    ELSE state.value

\* self._odometer_sensor.native_value, as the callback reads it: the
\* property returns round(base_km + delta_km + offset_km, 2) whatever the
\* coordinators hold, a missing window counting as an empty one.
odometer_sensor_native_value ==
    [is_None |-> FALSE, km |-> odometer_value]

\* Neither the lifetime nor the recent coordinator holds data.
coordinators_hold_no_data == lifetimeData.none /\ recentData.none

\* Variant of snapshot_calls that writes the weekly snapshot every day.
snapshot_calls_every_day(weekday, day, odometer_km, jour_mensuel) ==
    <<[entity |-> "km_debut_journee", value |-> odometer_km],
      [entity |-> "km_debut_semaine", value |-> odometer_km]>>
    \o (IF day = jour_mensuel
        THEN <<[entity |-> "km_debut_mois", value |-> odometer_km]>>
        ELSE <<>>)

\* The service calls _midnight_callback(now) creates for the odometer
\* value it read, in their order.
snapshot_calls(weekday, day, odometer_km, jour_mensuel) ==
    <<[entity |-> "km_debut_journee", value |-> odometer_km]>>
    \o (IF weekday = 0
        THEN <<[entity |-> "km_debut_semaine", value |-> odometer_km]>>
        ELSE <<>>)
    \o (IF day = jour_mensuel
        THEN <<[entity |-> "km_debut_mois", value |-> odometer_km]>>
        ELSE <<>>)

\* number.set_value on an entity of range min..max holding `old'.
number_set_value(min, max, old, value) ==
    IF value < min \/ value > max THEN old ELSE value

\* _midnight_callback(now)
midnight_callback(weekday, day) ==
    LET odometer_km == odometer_sensor_native_value
        jour_mensuel == _get_float(jour_stats_mensuelles, 1)
    IN  /\ snapTasks = <<>>
        /\ IF odometer_km.is_None
           THEN UNCHANGED snapTasks
           ELSE snapTasks' = snapshot_calls(weekday, day, odometer_km.km,
                                            jour_mensuel)
        /\ lastMidnight' = [fired |-> TRUE, weekday |-> weekday, day |-> day,
                            jour_mensuel |-> jour_mensuel,
                            no_data |-> coordinators_hold_no_data,
                            odometer_km |-> odometer_km.km, written |-> {}]
        /\ UNCHANGED <<snapshots, jour_stats_mensuelles>>
        /\ UNCHANGED <<odoVars, sockVars, fillVars, dispVars, apiVars, absVars,
                 loopVars, stopVars, healthVars, binVars>>

MidnightFires == \E weekday \in Weekdays, day \in MonthDays :
                    midnight_callback(weekday, day)

\* The oldest task created by _set_number runs its service call.
SnapshotServiceRuns ==
    /\ snapTasks # <<>>
    /\ LET call == Head(snapTasks)
           new == number_set_value(KM_DEBUT_MIN, KM_DEBUT_MAX,
                                   snapshots[call.entity], call.value)
       IN  /\ snapshots' = [snapshots EXCEPT ![call.entity] = new]
           /\ lastMidnight' = [lastMidnight EXCEPT
                                 !.written = IF new = call.value
                                             THEN @ \cup {call.entity} ELSE @]
    /\ snapTasks' = Tail(snapTasks)
    /\ UNCHANGED jour_stats_mensuelles
    /\ UNCHANGED <<odoVars, sockVars, fillVars, dispVars, apiVars, absVars,
                 loopVars, stopVars, healthVars, binVars>>

\* The user changes number.<moto>_jour_stats_mensuelles, or the entity
\* becomes unavailable.
JourChange ==
    /\ \E j \in JoursMensuels : jour_stats_mensuelles' = j
    /\ UNCHANGED <<snapshots, snapTasks, lastMidnight>>
    /\ UNCHANGED <<odoVars, sockVars, fillVars, dispVars, apiVars, absVars,
                 loopVars, stopVars, healthVars, binVars>>

SnapOffsetChange == \E o \in SnapOffsets : SetOffset(o)
SnapRecentRefresh == \E w \in {{}} : RecentRefresh(<<"200">>, w)
SnapLifetimeRefresh == \E w \in SnapWindows : LifetimeRefresh(<<"200">>, w)

InitSnap ==
    /\ OdoConstructed
    /\ SockConstructed
    /\ sockToken = TRUE
    /\ FillConstructed
    /\ DispConstructed
    /\ ApiConstructed
    /\ SnapConstructed
    /\ AbsConstructed
    /\ LoopConstructed
    /\ StopConstructed
    /\ HealthConstructed
    /\ BinConstructed
    /\ markerEntity = FALSE
    /\ plein_pending_at = 0

NextSnap ==
    \/ SnapRecentRefresh
    \/ SnapLifetimeRefresh
    \/ SnapOffsetChange
    \/ JourChange
    \/ MidnightFires
    \/ SnapshotServiceRuns

SpecSnap == InitSnap /\ [][NextSnap]_vars

(***************************************************************************)
(* Odometer set to an absolute value: the service georide_trips            *)
(* .set_odometer and GeoRideRealOdometerSensor.set_odometer.               *)
(* The target and the offset are in metres here.  set_odometer computes    *)
(* the offset and creates a task that calls number.set_value on the        *)
(* offset number; the task runs at a later step, and the host rejects a    *)
(* value outside the range of the number (number.py).  The task of one     *)
(* call has run before the service is called again.                        *)
(***************************************************************************)
\* Range of the odometer_offset number (number.py), in metres.
ODOMETER_OFFSET_MIN == -100000000
ODOMETER_OFFSET_MAX == 100000000

\* Targets (metres) the service may be called with: 0 km, 51.43 km,
\* 12.347 km and 150 000 km.
Targets == {0, 51430, 12347, 150000000}

\* tracker_km = base_km + delta_km of set_odometer
tracker_m(ld, rd) == base_m(ld) + delta_m(ld, rd)

\* Variant of offset_m that takes the target itself as the offset.
offset_m_is_target(value, tracker) == value

\* offset_km = value - tracker_km
offset_m(value, tracker) == value - tracker

\* set_odometer(value)
set_odometer(value) ==
    LET tracker == tracker_m(lifetimeData, recentData)
    IN  /\ offsetTasks = <<>>
        /\ offsetTasks' = <<[value |-> offset_m(value, tracker)]>>
        /\ lastSet' = [called |-> TRUE, ran |-> FALSE, accepted |-> FALSE,
                       value |-> value, tracker_m |-> tracker,
                       lifetime |-> lifetimeData, recent |-> recentData,
                       offset |-> offsetM]
        /\ UNCHANGED <<odoVars, sockVars, fillVars, dispVars, apiVars, snapVars,
                 loopVars, stopVars, healthVars, binVars>>

SetOdometer == \E value \in Targets : set_odometer(value)

\* The task created by set_odometer runs its service call.
OffsetServiceRuns ==
    /\ offsetTasks # <<>>
    /\ LET call == Head(offsetTasks)
           new == number_set_value(ODOMETER_OFFSET_MIN, ODOMETER_OFFSET_MAX,
                                   offsetM, call.value)
       IN  /\ offsetM' = new
           /\ lastSet' = [lastSet EXCEPT !.ran = TRUE,
                                         !.accepted = (new = call.value)]
    /\ offsetTasks' = Tail(offsetTasks)
    /\ UNCHANGED <<lifetimeData, recentData, lastCall>>
    /\ UNCHANGED <<sockVars, fillVars, dispVars, apiVars, snapVars,
                 loopVars, stopVars, healthVars, binVars>>

AbsRecentRefresh == \E w \in SnapWindows : RecentRefresh(<<"200">>, w)
AbsLifetimeRefresh == \E w \in SnapWindows : LifetimeRefresh(<<"200">>, w)

InitAbs ==
    /\ OdoConstructed
    /\ SockConstructed
    /\ sockToken = TRUE
    /\ FillConstructed
    /\ DispConstructed
    /\ ApiConstructed
    /\ SnapConstructed
    /\ AbsConstructed
    /\ LoopConstructed
    /\ StopConstructed
    /\ HealthConstructed
    /\ BinConstructed
    /\ markerEntity = FALSE
    /\ plein_pending_at = 0

NextAbs ==
    \/ AbsRecentRefresh
    \/ AbsLifetimeRefresh
    \/ SetOdometer
    \/ OffsetServiceRuns

SpecAbs == InitAbs /\ [][NextAbs]_vars

(***************************************************************************)
(* Properties of the odometer and the polling coordinators (SpecOdo).      *)
(***************************************************************************)

\* C1: over a refresh of either window that removes no trip from either
\* window, with the offset unchanged, the odometer value read after the
\* refresh is greater than or equal to the value read before it.
C1_OdometerNonDecreasing ==
    [][ ( /\ offsetM' = offsetM
          /\ lifetimeData.trips \subseteq lifetimeData'.trips
          /\ recentData.trips \subseteq recentData'.trips )
        => odometer_value' >= odometer_value ]_vars

\* C4: a refresh whose Telemetry API request fails (non-200 response,
\* network exception or failed re-login) leaves the data of the coordinator
\* as they were after the last successful fetch.
C4_FailedRefreshKeepsData ==
    [][ /\ (RecentRefreshFailed /\ lastCall'.failed /\ ~recentData.none)
               => recentData' = recentData
        /\ (LifetimeRefreshFailed /\ lastCall'.failed /\ ~lifetimeData.none)
               => lifetimeData' = lifetimeData ]_vars

\* C9: a trip that appears in both windows is not counted in the delta, so
\* base + delta is the sum of the distances of the lifetime trips and of the
\* new trips with every trip counted once.
C9_SharedTripCountedOnce ==
    LET L == lifetimeData.trips
        N == new_trips(lifetimeData.trips, recentData.trips)
    IN  /\ \A t \in L \cap recentData.trips : t \notin N
        /\ base_m(lifetimeData) + delta_m(lifetimeData, recentData)
               = SumDistance(L \cup N)

\* A trip is held by both windows while the recent window also holds a trip
\* that the delta counts.
C9_Witness ==
    /\ lifetimeData.trips \cap recentData.trips # {}
    /\ new_trips(lifetimeData.trips, recentData.trips) # {}

\* The delta as the claim C10 words it: the recent trips that start strictly
\* later than every trip of the lifetime window ends.
C10_ClaimedDelta ==
    SumDistance({t \in recentData.trips :
                    \A l \in lifetimeData.trips : t.startTime > l.endTime})

\* C10 as stated: the odometer value equals base + delta + offset exactly
\* (both sides in metres).
C10_ValueIsExactSum ==
    odometer_value * 10 = base_m(lifetimeData) + C10_ClaimedDelta + offsetM

\* C10 amended: the odometer value equals base + delta + offset rounded to
\* two decimals of a kilometre.
C10_ValueIsRoundedSum ==
    odometer_value = PyRound(base_m(lifetimeData) + C10_ClaimedDelta + offsetM, 10)

\* A lifetime window of 12.3 km, one recent trip of 1.234 km that starts
\* after the last lifetime trip has ended, and an offset of +2.0 km: the
\* value read is 15.53 km.
C10_Witness ==
    /\ base_m(lifetimeData) = 12300
    /\ \E t \in recentData.trips :
          /\ t.startTime > last_lifetime_date(lifetimeData.trips)
          /\ t.distance = 1234
    /\ delta_m(lifetimeData, recentData) = 1234
    /\ offsetM = 2000
    /\ odometer_value = 1553

(***************************************************************************)
(* Properties of the Socket.IO manager (SpecSock).                         *)
(***************************************************************************)

\* C6: the wait before the N-th consecutive failed reconnect cycle is
\* min(5 * 2^(N-1), 300) seconds (N - 1 = reconnects, the backoff waits
\* completed since the last successful connection), and the wait that
\* follows a cycle in which the connection was established is 5 seconds.
C6_BackoffSequence ==
    /\ [](loopPc = "sleeping" => lastWait = Min(5 * Pow2(reconnects), 300))
    /\ [][Disconnected => lastWait' = 5]_vars

\* The loop sleeps before the 7th consecutive failed reconnect cycle, where
\* the doubled delay (320) has reached the maximum.
C6_Witness ==
    /\ loopPc = "sleeping"
    /\ reconnects = 6
    /\ lastWait = 300

(***************************************************************************)
(* Properties of the fill-up workflow (SpecFill, SpecFillFair).            *)
(***************************************************************************)

Pending == stop_confirmed_callbacks # <<>>

\* No wait is outstanding, no press or computation is under way, and the
\* marker is absent.
Idle ==
    /\ stop_confirmed_callbacks = <<>>
    /\ presses = {}
    /\ computes = {}
    /\ plein_pending_at = 0

\* C5: whenever a press has put the workflow in Pending, the workflow
\* eventually returns to Idle with the marker cleared, whether or not an
\* unlocked-to-locked transition is observed afterwards.
C5_PendingReturnsToIdle == Pending ~> Idle

C8_RejectionLeavesFuel ==
    [][ ( /\ lastExit'.kind # "none"
          /\ lastExit'.obtained
          /\ \/ lastExit'.odometer_au_plein <= 0
             \/ lastExit'.odometer_au_plein - lastExit'.km_dernier_plein <= 0 )
        => /\ fuel' = fuel
           /\ plein_pending_at' = 0 ]_vars

\* A computation has just been abandoned because the odometer at the
\* fill-up does not exceed the recorded baseline of an earlier fill-up.
C8_Witness ==
    /\ lastExit.kind = "bad_distance"
    /\ lastExit.km_dernier_plein > 0
    /\ lastExit.odometer_au_plein <= lastExit.km_dernier_plein
    /\ fuel.km_dernier_plein = lastExit.km_dernier_plein
    /\ fuel.nb_pleins_enregistres = 1
    /\ plein_pending_at = 0

\* The three history slots, newest first.
HistSlots == <<fuel.km_plein_hist_1, fuel.km_plein_hist_2, fuel.km_plein_hist_3>>

\* The last three recorded distances, newest first.
LastThree == <<history[Len(history)], history[Len(history) - 1],
               history[Len(history) - 2]>>

C12_FirstFillUp ==
    [][ ( /\ lastExit'.kind # "none"
          /\ lastExit'.obtained
          /\ lastExit'.odometer_au_plein > 0
          /\ fuel.nb_pleins_enregistres = 0
          /\ fuel.km_dernier_plein = 0 )
        => /\ lastExit'.kind = "first"
           /\ fuel' = [fuel EXCEPT !.km_dernier_plein = lastExit'.odometer_au_plein,
                                   !.nb_pleins_enregistres = 1] ]_vars

\* The first fill-up was just recorded at a positive odometer.
C12_Witness ==
    /\ lastExit.kind = "first"
    /\ lastExit.odometer_au_plein > 0
    /\ fuel = [NoFuel EXCEPT !.km_dernier_plein = lastExit.odometer_au_plein,
                             !.nb_pleins_enregistres = 1]
    /\ history = <<>>

C14_FiresOnUnlockedToLocked ==
    (lastObs.kind = "update" /\ lastObs.bit # "none") =>
        lastObs.fired = IF lastObs.prev = "False" /\ lastObs.bit = "True"
                        THEN lastObs.subs ELSE <<>>

\* A registered subscriber was just fired on an unlocked-to-locked pair.
C14_Witness ==
    /\ lastObs.kind = "update"
    /\ lastObs.prev = "False"
    /\ lastObs.bit = "True"
    /\ lastObs.fired # <<>>

\* C15: an observation made while the previous lock state is unknown fires
\* no subscriber, whatever its lock bit.
C15_NoFireOnFirstObservation ==
    (lastObs.kind # "none" /\ lastObs.prev = "None") => lastObs.fired = <<>>

\* The first observed lock bit is "locked" while a subscriber is registered.
C15_Witness ==
    /\ lastObs.kind = "update"
    /\ lastObs.prev = "None"
    /\ lastObs.bit = "True"
    /\ lastObs.subs # <<>>
    /\ stop_confirmed_callbacks = lastObs.subs

\* C16: a registration that is invoked is no longer in the registry when
\* its callback runs, is invoked once by that edge, and was not invoked by
\* an earlier edge whose computation is still under way.
C16_OneShot ==
    [][ \A i \in 1..Len(lastObs'.fired) :
           /\ \A j \in 1..Len(stop_confirmed_callbacks') :
                  stop_confirmed_callbacks'[j] # lastObs'.fired[i]
           /\ \A j \in 1..Len(lastObs'.fired) :
                  j # i => lastObs'.fired[j] # lastObs'.fired[i]
           /\ \A t \in computes : t.press # lastObs'.fired[i] ]_vars

\* A registration was just invoked and a lock transition that follows
\* finds the registry without it.
C16_Witness ==
    /\ lastObs.fired # <<>>
    /\ stop_confirmed_callbacks = <<>>
    /\ \E t \in computes : t.press = lastObs.fired[1] /\ t.pc = "created"

\* C21: once stop() has returned, the _run_loop task has ended and
\* _connected is false, whichever await stop() interrupted, and as long as
\* start() is not called again nothing of the connection changes: no
\* connection attempt, no subscribe, no reconnect wait.
C21_StopIsFinal ==
    [][~should_run' =>
          /\ loopPc' \in {"none", "ended"}
          /\ ~connected'
          /\ ~should_run =>
                UNCHANGED <<loopPc, connected, emitted, lastWait, reconnects,
                            reconnect_delay>>]_vars

\* stop() has returned after interrupting the backoff sleep that followed a
\* lost connection.
C21_Witness ==
    /\ ~should_run
    /\ loopPc = "ended"
    /\ ~connected
    /\ emitted = NTrackers
    /\ lastWait = RECONNECT_DELAY_INITIAL
    /\ reconnects = 0

\* C22: while events are served on a connection (_connect awaits
\* sio.wait()), one subscribe message was sent on it for each tracker of the
\* account; while the connect handler is still sending them, fewer were.
C22_SubscribedBeforeServing ==
    /\ loopPc = "serving" => connected /\ emitted = NTrackers
    /\ loopPc = "subscribing" => connected /\ emitted < NTrackers

\* A reconnection after a backoff wait has subscribed every tracker again.
C22_Witness ==
    /\ loopPc = "serving"
    /\ emitted = NTrackers
    /\ lastWait > 0

\* C27: when the get_trips call of a computation fails or delivers no
\* distance, the odometer at the fill-up is the odometer reading taken by
\* the computation, and the computation goes on: a reading of 514.3 km with
\* a last fill-up at 480.0 km records 34.3 km in slot 1.
C27_FailedQueryCountsZero ==
    (lastExit.obtained /\ (lastExit.api_failed \/ lastExit.api_m = 0)) =>
        /\ lastExit.odometer_au_plein = lastExit.odometer_actuel
        /\ lastExit.kind \in {"first", "bad_distance", "recorded"}
        /\ (lastExit.odometer_actuel = 51430 /\ lastExit.km_dernier_plein = 48000)
              => /\ lastExit.kind = "recorded"
                 /\ fuel.km_plein_hist_1 = 3430
                 /\ fuel.km_dernier_plein = 51430

\* The scenario of C27 with a failed request.
C27_Witness ==
    /\ lastExit.kind = "recorded"
    /\ lastExit.api_failed
    /\ lastExit.odometer_actuel = 51430
    /\ lastExit.km_dernier_plein = 48000
    /\ fuel.km_plein_hist_1 = 3430

C29_MarkerSetWhilePending ==
    /\ (presses = {} /\ computes = {} /\ stop_confirmed_callbacks # <<>>)
          => get_datetime = stop_confirmed_callbacks[Len(stop_confirmed_callbacks)]
    /\ lastExit.kind # "no_marker"

\* C30: after _handle_status_update has run, _last_locked_state is the lock
\* bit of the data it looked at, false when the data are empty or lack the
\* field.
C30_PreviousIsLatestBit ==
    lastObs.kind = "update" =>
        last_locked_state = IF lastObs.bit = "none" THEN "False" ELSE lastObs.bit

(***************************************************************************)
(* Properties of the Telemetry API client (SpecApi).                       *)
(***************************************************************************)
\* The call has returned what the method returns on a failure.
Failed(c) == c.result \in {"[]", "False"}

\* C23: a call of any method (get_trackers, get_trips, the trip positions,
\* set_eco_mode) whose request is answered 401 logs in again exactly once
\* and, the login done, repeats the request exactly once; a call never
\* sends a third request, and when the repeated request is not answered
\* with a success the call returns the failure.
C23_RetriesExactlyOnceOn401 ==
    /\ Len(apiCall.answers) <= 2
    /\ apiCall.pc = "request" => Len(apiCall.answers) <= 1
    /\ (apiCall.pc = "returned" /\ Len(apiCall.answers) >= 1
          /\ apiCall.answers[1] = "401") =>
            /\ Len(apiCall.logins) = 1
            /\ apiCall.logins[1] => Len(apiCall.answers) = 2
            /\ (Len(apiCall.answers) = 2
                  /\ ~succeeds(apiCall.op, apiCall.answers[2]))
                    => Failed(apiCall)

(***************************************************************************)
(* Properties of the midnight snapshots (SpecSnap).                        *)
(***************************************************************************)
\* The service calls of the last midnight have all run.
Settled == lastMidnight.fired /\ snapTasks = <<>>

WeekStartDays == 0..6

InRange ==
    /\ KM_DEBUT_MIN <= lastMidnight.odometer_km
    /\ lastMidnight.odometer_km <= KM_DEBUT_MAX

SetStep == lastSet' # lastSet

\* After the step, the service call of the last set_odometer has run and
\* the windows are those the call found.
ReadAfterSet ==
    /\ lastSet'.ran
    /\ lifetimeData' = lastSet'.lifetime
    /\ recentData' = lastSet'.recent

\* C26 as stated: set_odometer and its service call change neither trip
\* window; once the call has run the offset is target - (base + delta), and
\* with the windows unchanged the odometer reads the target, for every
\* target.
C26_NextReadIsTarget ==
    [][/\ SetStep => UNCHANGED <<lifetimeData, recentData>>
       /\ ReadAfterSet =>
            /\ offsetM' = lastSet'.value - lastSet'.tracker_m
            /\ odometer_value' * 10 = lastSet'.value]_vars

\* C26, amended: set_odometer and its service call change neither trip
\* window nor anything but the offset; once the call has run, the offset
\* is target - (base + delta) if that lies within the range of the offset
\* number (-100 000 to 100 000 km) and is otherwise left as it was, and
\* with the windows unchanged the odometer then reads the target rounded
\* to two decimals in the first case and what it read before the call in
\* the second.
C26_NextReadIsRoundedTargetInRange ==
    [][/\ SetStep => UNCHANGED <<lifetimeData, recentData, lastCall, sockVars,
                                 fillVars, dispVars, apiVars, snapVars>>
       /\ ReadAfterSet =>
            LET offset == lastSet'.value - lastSet'.tracker_m
            IN  IF ODOMETER_OFFSET_MIN <= offset /\ offset <= ODOMETER_OFFSET_MAX
                THEN /\ offsetM' = offset
                     /\ odometer_value' = PyRound(lastSet'.value, 10)
                ELSE /\ offsetM' = lastSet'.offset
                     /\ odometer_value' =
                          native_value(lastSet'.lifetime, lastSet'.recent,
                                       lastSet'.offset)]_vars

C26_Witness ==
    /\ lastSet.ran
    /\ lastSet.accepted
    /\ lastSet.value = 51430
    /\ lastSet.tracker_m = 12300
    /\ lifetimeData = lastSet.lifetime
    /\ recentData = lastSet.recent
    /\ offsetM = 39130
    /\ odometer_value = 5143

(***************************************************************************)
(* Properties of the dispatch of live messages (SpecDisp).                 *)
(***************************************************************************)

\* The callbacks of list that the step just taken has called.
CalledNow ==
    {p \in lastDisp.from..Len(lastDisp.list) :
        p < lastDisp.next \/ (p = lastDisp.next /\ lastDisp.kind = "suspended")}

\* C17: when a callback of the list raised during a dispatch, the exception
\* did not leave _dispatch, the connection is still up and serving, and a
\* dispatch that has finished has called every callback of its list.
C17_RaisingHandlerIsIsolated ==
    lastDisp.raised # {} =>
        /\ ~lastDisp.surfaced
        /\ connected /\ loopPc = "serving"
        /\ lastDisp.kind = "done" => lastDisp.next = Len(lastDisp.list) + 1

\* A dispatch over two callbacks, run in one go, whose first callback raised
\* and whose second was called all the same.
C17_Witness ==
    /\ lastDisp.kind = "done"
    /\ Len(lastDisp.list) = 2
    /\ lastDisp.from = 1
    /\ lastDisp.raised = {1}
    /\ lastDisp.next = 3
    /\ connected

\* C18: the dispatch of a message whose payload has no tracker id (the key
\* is absent or null) calls no callback of any tracker and lets no exception
\* out; with the key absent the message is dropped before any lookup.
C18_NoDeviceIdIsDropped ==
    (lastDisp.kind # "none" /\ lastDisp.data.type # "int") =>
        /\ lastDisp.list = <<>>
        /\ lastDisp.next = 1
        /\ ~lastDisp.surfaced
        /\ ~lastDisp.data.has => lastDisp.kind = "dropped"

\* A message without trackerId is dropped while callbacks are registered for
\* its event name on both trackers.
C18_Witness ==
    /\ lastDisp.kind = "dropped"
    /\ \A tracker \in Devices :
           _callbacks[<<tracker, lastDisp.event_name>>] # <<>>

\* C19: a callback is not called for a message of a tracker while the
\* dispatch of an earlier message of the same tracker has not finished
\* calling that callback.
C19_PerDeviceOrder ==
    \A i \in 1..Len(tasks) :
        (/\ lastDisp.kind \in {"done", "suspended"}
         /\ i < lastDisp.index
         /\ tracker_id(tasks[i].data) = tracker_id(lastDisp.data)) =>
            \A p \in CalledNow, q \in tasks[i].next..Len(tasks[i].list) :
                lastDisp.list[p] # tasks[i].list[q]

\* The number of times callback occurs in list.
Count(list, callback) ==
    Cardinality({p \in 1..Len(list) : list[p] = callback})

\* C20: a dispatch that has finished has called, for the tracker and event
\* name of its message, exactly the callbacks of the registrations whose
\* unregister function had not been called when it started.
C20_ExactlyLiveHandlersInvoked ==
    lastDisp.kind = "done" =>
        \A callback \in Handlers :
            Count(SubSeq(lastDisp.list, 1, lastDisp.next - 1), callback)
                = Count(lastDisp.live, callback)

(***************************************************************************)
(* Further properties of the Socket.IO manager (SpecSock).                 *)
(***************************************************************************)
\* C35: in every reachable state the reconnect delay lies between
\* RECONNECT_DELAY_INITIAL (5 s) and RECONNECT_DELAY_MAX (300 s) inclusive,
\* after any sequence of connect successes, connect failures and
\* disconnects.
C35_DelayWithinBounds ==
    /\ RECONNECT_DELAY_INITIAL <= reconnect_delay
    /\ reconnect_delay <= RECONNECT_DELAY_MAX

\* The loop has waited the maximum and doubled it again: the delay stays
\* at the maximum.
C35_Witness ==
    /\ loopPc = "connecting"
    /\ lastWait = RECONNECT_DELAY_MAX
    /\ reconnect_delay = RECONNECT_DELAY_MAX
    /\ reconnects = 7

(***************************************************************************)
(* Further properties of the Telemetry API client (SpecApi).               *)
(***************************************************************************)
\* C36: a call of set_eco_mode sends at most two PUT requests, whatever the
\* server answers, and when both were answered 401 it has then returned
\* False: it is never found logging in again after its second request or
\* sending a third one.
C36_EcoModeAtMostTwoRequests ==
    apiCall.op = "set_eco_mode" =>
        /\ Len(apiCall.answers) <= 2
        /\ (Len(apiCall.answers) = 2 /\ apiCall.answers[2] = "401") =>
              /\ apiCall.pc = "returned"
              /\ apiCall.result = "False"

(***************************************************************************)
(* Further properties of the dispatch of live messages (SpecDisp).         *)
(***************************************************************************)
\* C32: the handling of a message whose payload has no tracker id (the key
\* is absent or null) fires no event on the bus of the host.
C32_NoDeviceIdNoNotification ==
    (lastDisp.kind # "none" /\ lastDisp.data.type # "int") =>
        lastDisp.bus = "none"

\* C33: the registry holds, for every tracker and event name, exactly the
\* callbacks of the registrations whose unregister function was never
\* called, in the order of their registration: an unregister function
\* removes its own registration and nothing else, however often it is called
\* and also when the same callback was registered twice.
C33_UnregisterRevokesOwnOnly ==
    \A tracker \in Devices, event_name \in Kinds :
        _callbacks[<<tracker, event_name>>]
            = live_callbacks(tokens, tracker, event_name)


\* ======================================================================
\* The binary sensors fed by the live stream (binary_sensor.py)
\* ======================================================================
\* A field of a payload, or the moving field of the status coordinator's
\* data: missing, or the truth value bool() gives it.
Fields == {"absent", "True", "False"}

\* What GeoRideTrackerStatusCoordinator.data can be when its listeners are
\* called: {} (tracker not found), a tracker without the moving field, or a
\* tracker with it.
PolledData == {"Empty", "absent", "True", "False"}

\* What async_get_last_state returns.
LastStates == {"none", "unavailable", "on", "off"}

\* GeoRideBinarySensor._handle_socket_event: the payload's field replaces
\* the state when it is there.
_handle_socket_event(on, field) ==
    IF field = "absent" THEN on ELSE field = "True"

\* The fallback sets the sensor on as well.
_handle_coordinator_update_follows(on, data) ==
    IF data \in {"Empty", "absent"} THEN on ELSE data = "True"

\* GeoRideBinarySensor._handle_coordinator_update: only a polled False on a
\* sensor that is on changes the state.
_handle_coordinator_update(on, data) ==
    IF data \in {"Empty", "absent"} THEN on
    ELSE IF data = "False" /\ on THEN FALSE
    ELSE on

\* async_added_to_hass: the last state is restored.
restored(on, last_state) ==
    IF last_state \in {"none", "unavailable"} THEN on ELSE last_state = "on"

\* async_added_to_hass of the three sensors, before any event.
BinAdded == \E last \in [SensorKeys -> LastStates] :
    /\ lastBin.kind = "none"
    /\ is_on' = [key \in SensorKeys |-> restored(is_on[key], last[key])]
    /\ lastBin' = [kind |-> "added", moving |-> "absent",
                   before |-> is_on["moving"]]
    /\ UNCHANGED <<odoVars, sockVars, fillVars, dispVars, apiVars, snapVars,
                   absVars, loopVars, stopVars, healthVars>>

\* A "position" message: only the moving sensor listens.
BinPositionEvent == \E moving \in Fields :
    /\ lastBin.kind # "none"
    /\ is_on' = [is_on EXCEPT
                   !["moving"] = _handle_socket_event(@, moving)]
    /\ lastBin' = [kind |-> "socket", moving |-> moving,
                   before |-> is_on["moving"]]
    /\ UNCHANGED <<odoVars, sockVars, fillVars, dispVars, apiVars, snapVars,
                   absVars, loopVars, stopVars, healthVars>>

\* A "device" message: the three sensors listen, each to its field.
BinDeviceEvent == \E data \in [SensorKeys -> Fields] :
    /\ lastBin.kind # "none"
    /\ is_on' = [key \in SensorKeys |->
                   _handle_socket_event(is_on[key], data[key])]
    /\ lastBin' = [kind |-> "socket", moving |-> data["moving"],
                   before |-> is_on["moving"]]
    /\ UNCHANGED <<odoVars, sockVars, fillVars, dispVars, apiVars, snapVars,
                   absVars, loopVars, stopVars, healthVars>>

\* What /user/trackers holds for the tracker: it is not listed, or it is
\* listed without or with the moving field.
ServerTrackers == {"missing", "absent", "True", "False"}

\* GeoRideTripsAPI.get_trackers: the entry of the tracker in the list
\* returned; every answer but 200 gives the empty list.
get_trackers(answer, tracker) ==
    IF answer = "200" THEN tracker ELSE "missing"

\* GeoRideTrackerStatusCoordinator._async_update_data: the tracker's dict,
\* or {} when the list does not hold it.
status_data(listed) == IF listed = "missing" THEN "Empty" ELSE listed

\* A refresh of the status coordinator: the request, the new data and
\* flag, and the listener of the moving sensor.
StatusRefresh(answer, tracker) ==
    /\ lastBin.kind # "none"
    /\ statusData' = status_data(get_trackers(answer, tracker))
    /\ last_update_success' =
           [last_update_success EXCEPT !["status"] = update_success(<<answer>>)]
    /\ lastCall' = [coord |-> "status", failed |-> answer # "200"]
    /\ is_on' = [is_on EXCEPT
                   !["moving"] = _handle_coordinator_update(@, statusData')]
    /\ lastBin' = [kind |-> "poll", moving |-> statusData',
                   before |-> is_on["moving"]]
    /\ UNCHANGED <<lifetimeData, recentData, offsetM, sockVars, fillVars,
                   dispVars, apiVars, snapVars, absVars, loopVars, stopVars>>

BinCoordinatorUpdate == \E answer \in Answers, tracker \in ServerTrackers :
    StatusRefresh(answer, tracker)

InitBin ==
    /\ OdoConstructed
    /\ SockConstructed
    /\ sockToken = TRUE
    /\ FillConstructed
    /\ markerEntity = FALSE
    /\ plein_pending_at = 0
    /\ DispConstructed
    /\ ApiConstructed
    /\ SnapConstructed
    /\ AbsConstructed
    /\ LoopConstructed
    /\ StopConstructed
    /\ HealthConstructed
    /\ BinConstructed

NextBin ==
    \/ BinAdded
    \/ BinPositionEvent
    \/ BinDeviceEvent
    \/ BinCoordinatorUpdate

SpecBin == InitBin /\ [][NextBin]_vars

HealthRecentRefresh == \E s \in ServerScripts, w \in SnapWindows :
    RecentRefresh(s, w)
HealthLifetimeRefresh == \E s \in ServerScripts, w \in SnapWindows :
    LifetimeRefresh(s, w)

InitHealth ==
    /\ OdoConstructed
    /\ SockConstructed
    /\ sockToken = TRUE
    /\ FillConstructed
    /\ markerEntity = FALSE
    /\ plein_pending_at = 0
    /\ DispConstructed
    /\ ApiConstructed
    /\ SnapConstructed
    /\ AbsConstructed
    /\ LoopConstructed
    /\ StopConstructed
    /\ HealthConstructed
    /\ BinConstructed

NextHealth ==
    \/ HealthRecentRefresh
    \/ HealthLifetimeRefresh
    \/ BinAdded
    \/ BinCoordinatorUpdate

SpecHealth == InitHealth /\ [][NextHealth]_vars

\* C34: after a refresh of a polling coordinator whose API request failed
\* the coordinator's healthy flag is false, and after a refresh whose
\* request succeeded it is true.
C34_HealthyFlagTracksRequest ==
    lastCall.coord # "none" =>
        last_update_success[lastCall.coord] = ~lastCall.failed

\* ======================================================================
\* The subscribers of the lock transition (sensor.py)
\* ======================================================================
\* _stop_confirmed_callbacks holds the callback _on_stop that the sensor
\* platform registers for the coordinator ("_on_stop") and the callbacks
\* of the fill-up button ("plein").  The refresh of the recent coordinator
\* that _on_lock_confirmed requests is a refresh of SpecOdo.
StopCallbacks == {"_on_stop", "plein"}

\* The callbacks registered while the callbacks of a transition are called,
\* in the order of the calls: _on_stop registers itself again by
\* _register_stop_cb, _on_stop_confirmed_for_plein registers nothing.
registered_by(callbacks) ==
    SelectSeq(callbacks, LAMBDA callback : callback = "_on_stop")

\* _on_lock_confirmed: the list after the copy was taken, the list was
\* cleared and every callback of the copy was called.
after_lock_confirmed(callbacks) ==
    remaining_after_lock(callbacks) \o registered_by(callbacks)

\* async_setup_entry of the sensor platform: _register_stop_cb(...).
StopSetup ==
    /\ stopSubs = <<>>
    /\ ~attached
    /\ stopSubs' = on_stop_confirmed(stopSubs, "_on_stop")
    /\ lastEdge' = NoEdge
    /\ UNCHANGED <<stopEdges, onStopCalls, refreshRequested, odoVars,
                   sockVars, fillVars, dispVars, apiVars, snapVars, absVars,
                   loopVars, healthVars, binVars>>

\* attach_status_coordinator, once the platforms are set up.
StopAttach ==
    /\ stopSubs # <<>>
    /\ \E data \in {"None", "Empty", "NoField", "Locked", "Unlocked"} :
           Attach(data)

\* A poll of the status coordinator delivers data: _handle_status_update,
\* and on a transition _on_lock_confirmed with the calls of the callbacks.
StopStatusUpdate(data) ==
    /\ attached
    /\ IF data # "Empty" /\ lock_transition(last_locked_state, data)
       THEN /\ stopEdges < MaxEdges
            /\ stopEdges' = stopEdges + 1
            /\ stopSubs' = after_lock_confirmed(stopSubs)
            /\ onStopCalls' = onStopCalls + Count(stopSubs, "_on_stop")
            /\ refreshRequested' =
                   (refreshRequested \/ Count(stopSubs, "_on_stop") > 0)
            /\ lastEdge' = [fired |-> stopSubs, subs |-> stopSubs']
       ELSE /\ lastEdge' = NoEdge
            /\ UNCHANGED <<stopEdges, stopSubs, onStopCalls, refreshRequested>>
    /\ last_locked_state' = IF data = "Empty" THEN last_locked_state
                            ELSE is_locked(data)
    /\ UNCHANGED <<markerEntity, plein_pending_at, fuel,
                   stop_confirmed_callbacks, unregister_stop_cb, attached,
                   presses, computes, pressCount, lastExit, added, history,
                   lastObs, odoVars, sockVars, dispVars, apiVars, snapVars,
                   absVars, loopVars, healthVars, binVars>>

StopStatusPoll == \E data \in {"Empty", "NoField", "Locked", "Unlocked"} :
    StopStatusUpdate(data)

\* The button subscribes to the next transition: on_stop_confirmed.
StopButtonSubscribes ==
    /\ stopSubs # <<>>
    /\ Count(stopSubs, "plein") < MaxPress
    /\ stopSubs' = on_stop_confirmed(stopSubs, "plein")
    /\ lastEdge' = NoEdge
    /\ UNCHANGED <<stopEdges, onStopCalls, refreshRequested, odoVars,
                   sockVars, fillVars, dispVars, apiVars, snapVars, absVars,
                   loopVars, healthVars, binVars>>

\* The unregister function the button holds is called.
StopButtonUnregisters ==
    /\ Count(stopSubs, "plein") > 0
    /\ stopSubs' = list_remove(stopSubs, "plein")
    /\ lastEdge' = NoEdge
    /\ UNCHANGED <<stopEdges, onStopCalls, refreshRequested, odoVars,
                   sockVars, fillVars, dispVars, apiVars, snapVars, absVars,
                   loopVars, healthVars, binVars>>

\* The task created by _on_stop runs: the lifetime coordinator refreshes.
StopRefreshRuns == \E s \in ServerScripts, w \in SnapWindows :
    /\ refreshRequested
    /\ refreshRequested' = FALSE
    /\ lifetimeData' = Data(get_trips(s, w))
    /\ last_update_success' =
           [last_update_success EXCEPT !["lifetime"] = update_success(s)]
    /\ lastCall' = [coord |-> "lifetime", failed |-> ~ScriptSucceeds(s)]
    /\ lastEdge' = NoEdge
    /\ UNCHANGED <<recentData, offsetM, statusData, stopSubs, stopEdges,
                   onStopCalls, sockVars, fillVars, dispVars, apiVars,
                   snapVars, absVars, loopVars, binVars>>

InitStop ==
    /\ OdoConstructed
    /\ SockConstructed
    /\ sockToken = TRUE
    /\ FillConstructed
    /\ markerEntity = FALSE
    /\ plein_pending_at = 0
    /\ DispConstructed
    /\ ApiConstructed
    /\ SnapConstructed
    /\ AbsConstructed
    /\ LoopConstructed
    /\ StopConstructed
    /\ HealthConstructed
    /\ BinConstructed

NextStop ==
    \/ StopSetup
    \/ StopAttach
    \/ StopStatusPoll
    \/ StopButtonSubscribes
    \/ StopButtonUnregisters
    \/ StopRefreshRuns

SpecStop == InitStop /\ [][NextStop]_vars

\* C31: the stop subscriber of the sensor platform is called exactly once
\* for every detected unlocked -> locked transition, over any number of
\* transitions: the registration it makes from inside its own call is not
\* called for the transition being processed and is in place for the next.
C31_StopSubscriberOncePerEdge ==
    /\ onStopCalls = stopEdges
    /\ stopSubs # <<>> => Count(stopSubs, "_on_stop") = 1
    /\ lastEdge # NoEdge =>
          /\ Count(lastEdge.fired, "_on_stop") = 1
          /\ Count(lastEdge.subs, "_on_stop") = 1

\* The second transition has called _on_stop and a callback of the button.
C31_Witness ==
    /\ stopEdges = 2
    /\ onStopCalls = 2
    /\ Count(lastEdge.fired, "plein") = 1
    /\ Count(lastEdge.fired, "_on_stop") = 1
    /\ stopSubs = <<"_on_stop">>

\* ======================================================================
\* start() called while a loop runs (socket_manager.py)
\* ======================================================================
\* start() creates a _run_loop task whatever _reconnect_task holds, and
\* stop() cancels the task _reconnect_task holds.  A task that start() has
\* replaced runs on with the attributes of the manager; it is a record
\* of the await it is suspended at (as loopPc, the emits of the connect
\* handler taken with the connect) and of its local was_connected.
Orphan(pc, was) == [pc |-> pc, was_connected |-> was]

\* The tasks after task number i has left the while loop.
orphan_returns(i) == RemoveAt(orphans, i)

\* The tasks after task number i has moved to the await pc.
orphan_awaits(i, pc, was) == [orphans EXCEPT ![i] = Orphan(pc, was)]

\* start() once more: the task that runs is no longer referred to.
SockStartAgain ==
    /\ loopPc \notin {"none", "ended"}
    /\ Len(orphans) < MaxLoops
    /\ should_run' = TRUE
    /\ orphans' = Append(orphans, Orphan(loopPc, was_connected))
    /\ loopPc' = "created"
    /\ UNCHANGED <<connected, reconnect_delay, sockToken, was_connected,
                   emitted, lastWait, reconnects, odoVars, fillVars,
                   dispVars, apiVars, snapVars, absVars, stopVars,
                   healthVars, binVars>>

\* `while self._should_run' of a replaced task, on its first run and after
\* its sleep (which doubles the delay).
OrphanIterates(i) ==
    /\ orphans[i].pc \in {"created", "sleeping"}
    /\ reconnect_delay' = IF orphans[i].pc = "sleeping"
                          THEN NextDelay(reconnect_delay)
                          ELSE reconnect_delay
    /\ orphans' = IF should_run
                  THEN orphan_awaits(i, "connecting", connected)
                  ELSE orphan_returns(i)
    /\ UNCHANGED <<should_run, connected, loopPc, sockToken, was_connected,
                   emitted, lastWait, reconnects, odoVars, fillVars,
                   dispVars, apiVars, snapVars, absVars, stopVars,
                   healthVars, binVars>>

\* sio.connect of a replaced task succeeds: the connect handler runs and
\* the task awaits sio.wait().
OrphanConnects(i) ==
    /\ orphans[i].pc = "connecting"
    /\ connected' = TRUE
    /\ sockToken' = TRUE
    /\ reconnect_delay' = ConnectHandlerDelay(reconnect_delay)
    /\ orphans' = orphan_awaits(i, "serving", orphans[i].was_connected)
    /\ UNCHANGED <<should_run, loopPc, was_connected, emitted, lastWait,
                   reconnects, odoVars, fillVars, dispVars, apiVars,
                   snapVars, absVars, stopVars, healthVars, binVars>>

\* _connect of a replaced task returns (sio.connect raised, or the
\* connection was lost): _connected is cleared, and the task leaves the
\* loop if _should_run is False, sleeps otherwise.
OrphanConnectReturns(i) ==
    /\ orphans[i].pc \in {"connecting", "serving"}
    /\ connected' = FALSE
    /\ IF should_run
       THEN /\ reconnect_delay' = IF orphans[i].was_connected
                                  THEN RECONNECT_DELAY_INITIAL
                                  ELSE reconnect_delay
            /\ orphans' = orphan_awaits(i, "sleeping",
                                        orphans[i].was_connected)
       ELSE /\ orphans' = orphan_returns(i)
            /\ UNCHANGED reconnect_delay
    /\ UNCHANGED <<should_run, loopPc, sockToken, was_connected, emitted,
                   lastWait, reconnects, odoVars, fillVars, dispVars,
                   apiVars, snapVars, absVars, stopVars, healthVars,
                   binVars>>

OrphanRuns == \E i \in 1..Len(orphans) :
    \/ OrphanIterates(i)
    \/ OrphanConnects(i)
    \/ OrphanConnectReturns(i)

InitLoops ==
    /\ OdoConstructed
    /\ SockConstructed
    /\ sockToken = TRUE
    /\ FillConstructed
    /\ markerEntity = FALSE
    /\ plein_pending_at = 0
    /\ DispConstructed
    /\ ApiConstructed
    /\ SnapConstructed
    /\ AbsConstructed
    /\ LoopConstructed
    /\ StopConstructed
    /\ HealthConstructed
    /\ BinConstructed

NextLoops ==
    \/ SockStart
    \/ SockStartAgain
    \/ LoopBegin
    \/ ConnectFails("connect_failed")
    \/ ConnectSucceeds
    \/ EmitSubscribe
    \/ Disconnected
    \/ Wake
    \/ SockStop
    \/ OrphanRuns

SpecLoops == InitLoops /\ [][NextLoops]_vars

\* The _run_loop tasks that have not finished.
RunningLoops ==
    Len(orphans) + (IF loopPc \in {"none", "ended"} THEN 0 ELSE 1)

\* C37: after any sequence of start() and stop() calls at most one
\* reconnect loop is running; start() called twice leaves one loop.
C37_AtMostOneLoop == RunningLoops <= 1
=============================================================================
